---- MODULE Spec2Model ----
(***************************************************************************)
(* PyOS-Agent policy and execution core: SecurityShield, ApprovalManager   *)
(* and the PyOSOrchestrator tool execution / self-healing path.            *)
(*                                                                         *)
(* Python strings are sequences of one-character strings, so that lower(), *)
(* strip(), split(), "in", startswith(), replace() and the regular         *)
(* expressions are computed character by character as the code does.       *)
(* Paths are sequences of path components below the root.                  *)
(***************************************************************************)
EXTENDS Integers, Sequences, FiniteSets, TLC

----------------------------------------------------------------------------
(* Strings                                                                 *)

\* str.isspace() for the characters that occur in commands
IsSpace(ch) == ch \in {" ", "\t", "\n"}

UpperCase ==
    <<"A","B","C","D","E","F","G","H","I","J","K","L","M","N","O","P","Q","R","S","T","U","V","W","X","Y","Z">>
\* the lower-case letter of each upper-case letter
LowerTable ==
    [ch \in {UpperCase[i] : i \in 1..26} |->
        (<<"a","b","c","d","e","f","g","h","i","j","k","l","m","n","o","p","q","r","s","t","u","v","w","x","y","z">>)[CHOOSE i \in 1..26 : UpperCase[i] = ch]]

\* str.lower() on one character
LowerChar(ch) == IF ch \in DOMAIN LowerTable THEN LowerTable[ch] ELSE ch

\* str.lower()
Lower(s) == [i \in 1..Len(s) |-> LowerChar(s[i])]

\* str.startswith(prefix)
StartsWith(s, prefix) ==
    /\ Len(prefix) <= Len(s)
    /\ SubSeq(s, 1, Len(prefix)) = prefix

\* the positions at which sub occurs in s
Occurrences(s, sub) ==
    {i \in 1..(Len(s) - Len(sub) + 1) : SubSeq(s, i, i + Len(sub) - 1) = sub}

\* sub in s
Contains(s, sub) == Len(sub) = 0 \/ Occurrences(s, sub) # {}

Min(S) == CHOOSE x \in S : \A y \in S : x <= y

\* str.replace(old, new, 1): the first occurrence only
ReplaceFirst(s, old, new) ==
    IF Occurrences(s, old) = {} THEN s
    ELSE LET i == Min(Occurrences(s, old))
         IN  SubSeq(s, 1, i - 1) \o new \o SubSeq(s, i + Len(old), Len(s))

\* str.strip(): leading and trailing whitespace removed
Strip(s) ==
    LET keep == {i \in 1..Len(s) : ~IsSpace(s[i])}
    IN  IF keep = {} THEN <<>>
        ELSE SubSeq(s, Min(keep), CHOOSE x \in keep : \A y \in keep : y <= x)

\* str.split(): the maximal runs of non-whitespace characters, in order
RECURSIVE Split(_)
Split(s) ==
    IF Len(s) = 0 THEN <<>>
    ELSE IF IsSpace(s[1]) THEN Split(Tail(s))
    ELSE LET stops == {i \in 1..Len(s) : IsSpace(s[i])}
             n     == IF stops = {} THEN Len(s) ELSE Min(stops) - 1
         IN  <<SubSeq(s, 1, n)>> \o Split(SubSeq(s, n + 1, Len(s)))

----------------------------------------------------------------------------
(* Regular expressions of blocked_patterns                                 *)
(* A pattern is a sequence of elements: a literal character, \s+ or .*     *)

Lit(s) == [i \in 1..Len(s) |-> [k |-> "lit", c |-> s[i]]]
Ws1 == <<[k |-> "ws+", c |-> " "]>>
\* re match of pattern p from element i at position j of s
RECURSIVE MatchAt(_, _, _, _)
MatchAt(p, i, s, j) ==
    IF i > Len(p) THEN TRUE
    ELSE CASE p[i].k = "lit" ->
                /\ j <= Len(s)
                /\ s[j] = p[i].c
                /\ MatchAt(p, i + 1, s, j + 1)
           [] p[i].k = "ws+" ->
                /\ j <= Len(s)
                /\ IsSpace(s[j])
                /\ (MatchAt(p, i + 1, s, j + 1) \/ MatchAt(p, i, s, j + 1))
           [] p[i].k = ".*" ->
                \/ MatchAt(p, i + 1, s, j)
                \/ (j <= Len(s) /\ s[j] # "\n" /\ MatchAt(p, i, s, j + 1))

\* pattern.search(s)
Search(p, s) == \E j \in 1..(Len(s) + 1) : MatchAt(p, 1, s, j)

\* re.compile(r"rm\s+-rf\s+/")
pat_rm_rf == Lit(<<"r","m">>) \o Ws1 \o Lit(<<"-","r","f">>) \o Ws1 \o Lit(<<"/">>)

\* re.compile(r"mkfs")
pat_mkfs == Lit(<<"m","k","f","s">>)

\* re.compile(r"dd\s+if=.*of=/dev")
pat_dd == Lit(<<"d","d">>) \o Ws1 \o Lit(<<"i","f","=">>) \o <<[k |-> ".*", c |-> " "]>> \o Lit(<<"o","f","=","/","d","e","v">>)

\* the blocked_patterns list built by SecurityShield.__init__
DefaultBlockedPatterns == <<pat_rm_rf, pat_mkfs, pat_dd>>

----------------------------------------------------------------------------
(* Commands and command names used as inputs                              *)

\* "ls"
c_ls == <<"l","s">>

\* "LS"
c_LS == <<"L","S">>

\* "ls -la /tmp"
c_ls_la == <<"l","s"," ","-","l","a"," ","/","t","m","p">>

\* "rm"
c_rm == <<"r","m">>

\* "rm -rf /"
c_rm_rf == <<"r","m"," ","-","r","f"," ","/">>

\* "RM -RF /"
c_RM_RF == <<"R","M"," ","-","R","F"," ","/">>

\* "sudo -i"
c_sudo_i == <<"s","u","d","o"," ","-","i">>

\* "python x.py"
c_python == <<"p","y","t","h","o","n"," ","x",".","p","y">>

Commands ==
    {c_ls, c_LS, c_ls_la, c_rm, c_rm_rf, c_RM_RF, c_sudo_i, c_python,
     <<>>,   \* the empty command
     <<" "," ">>,   \* a command of whitespace only
     <<"r","m"," ","\t","-","r","f"," "," ","/">>,   \* "rm \t-rf  /"
     <<"s","u","d","o"," ","l","s">>,   \* "sudo ls"
     <<"m","k","f","s"," ","/","d","e","v","/","s","d","a">>,   \* "mkfs /dev/sda"
     <<"d","d"," ","i","f","=","a"," ","o","f","=","/","d","e","v","/","s","d","a">>}   \* "dd if=a of=/dev/sda"

\* the commands of the attack tests and of the decorator tests
AttackCommands ==
    {c_rm, c_ls, c_ls_la, c_rm_rf, c_RM_RF,
     <<" "," ">>,
     \* "rm   -rf   /"
     <<"r","m"," "," "," ","-","r","f"," "," "," ","/">>,
     \* "Rm -Rf /"
     <<"R","m"," ","-","R","f"," ","/">>,
     \* "rm -rf /home/../"
     <<"r","m"," ","-","r","f"," ","/","h","o","m","e","/",".",".","/">>,
     \* "rm -rf /*"
     <<"r","m"," ","-","r","f"," ","/","*">>,
     \* "(rm -rf / &); sleep 1000"
     <<"(","r","m"," ","-","r","f"," ","/"," ","&",")",";"," ","s","l","e","e","p"," ","1","0","0","0">>,
     \* "rm -rf / > /dev/null 2>&1 & sudo -i"
     <<"r","m"," ","-","r","f"," ","/"," ",">"," ","/","d","e","v","/","n","u","l","l"," ","2",">","&","1"," ","&"," ","s","u","d","o"," ","-","i">>,
     \* "ls > /etc/passwd"
     <<"l","s"," ",">"," ","/","e","t","c","/","p","a","s","s","w","d">>,
     \* "cat file > /dev/sda"
     <<"c","a","t"," ","f","i","l","e"," ",">"," ","/","d","e","v","/","s","d","a">>,
     \* "echo test > /root/secret"
     <<"e","c","h","o"," ","t","e","s","t"," ",">"," ","/","r","o","o","t","/","s","e","c","r","e","t">>,
     \* "echo hello"
     <<"e","c","h","o"," ","h","e","l","l","o">>}

\* "RM"
n_RM == <<"R","M">>

\* " sudo "
n_sudo == <<" ","s","u","d","o"," ">>

\* "python"
n_python == <<"p","y","t","h","o","n">>

CommandNames ==
    {n_RM, n_sudo,
     <<>>,   \* ""
     <<"l","s">>,   \* "ls"
     <<"m","k","f","s">>}   \* "mkfs"

----------------------------------------------------------------------------
(* Paths and the file system                                               *)

\* Path(...): absolute or relative, with its components in order
AbsPath(parts) == [abs |-> TRUE, parts |-> parts]
RelPath(parts) == [abs |-> FALSE, parts |-> parts]

\* "/tmp"
p_tmp == AbsPath(<<"tmp">>)

\* "/tmp/file.txt"
p_tmp_file == AbsPath(<<"tmp", "file.txt">>)

\* "/tmp/./file.txt"
p_tmp_dot_file == AbsPath(<<"tmp", ".", "file.txt">>)

\* "/tmp/../../etc/passwd"
p_traversal == AbsPath(<<"tmp", "..", "..", "etc", "passwd">>)

\* "/etc/passwd"
p_etc_passwd == AbsPath(<<"etc", "passwd">>)

\* "/tmp/missing"
p_missing == AbsPath(<<"tmp", "missing">>)

Paths ==
    {p_tmp, p_tmp_file, p_tmp_dot_file, p_traversal, p_etc_passwd, p_missing,
     AbsPath(<<"etc">>),   \* "/etc"
     AbsPath(<<"tmp", "link", "passwd">>),   \* "/tmp/link/passwd", where /tmp/link may be a symbolic link to /etc
     RelPath(<<"file.txt">>),   \* "file.txt", relative to the working directory
     RelPath(<<"..", "tmp">>)}   \* "../tmp", relative to the working directory

\* the paths given to add_allowed_path
AddedPaths == {p_tmp, p_missing, AbsPath(<<"tmp", "link">>)}

\* the working directory of the process, "/home"
Cwd == <<"home">>

\* the directories and files that exist (symbolic links aside)
ExistingFiles ==
    {<<>>, <<"tmp">>, <<"tmp", "file.txt">>, <<"etc">>, <<"etc", "passwd">>,
     <<"home">>, <<"home", "file.txt">>}

\* the symbolic link an attacker may create or remove: /tmp/link -> /etc
LinkName == <<"tmp", "link">>
LinkTarget == <<"etc">>


----------------------------------------------------------------------------
(* State                                                                   *)

VARIABLES
    allowed_commands,   \* SecurityShield.allowed_commands
    allowed_paths,      \* SecurityShield.allowed_paths (canonical component sequences)
    blocked_patterns,   \* SecurityShield.blocked_patterns
    links,              \* the symbolic links present in the file system
    shield_last,        \* outcome of the latest SecurityShield call
    auto_approve,       \* ApprovalManager.auto_approve
    approved_actions,   \* ApprovalManager.approved_actions
    approval_history,   \* ApprovalManager.approval_history
    approval_last,      \* outcome of the latest ApprovalManager call
    granted,            \* the actions for which require_approval has returned True
    security_enabled,   \* settings.security_enabled
    memory_on,          \* self.memory is not None
    max_retries,        \* self.max_retries
    tools,              \* the keys of self.tools
    stack,              \* the active _execute_tool / _analyze_and_retry_tool frames
    ret,                \* the result travelling back to the caller on top of the stack
    call,               \* the tool call being served: name, arguments and result
    invoked,            \* the (tool, arguments) the tool function was called with
    validated,          \* the (tool, arguments) SecurityShield accepted
    attempts,           \* what each tool function invocation of this call did, in order
    n_retries,          \* re-invocations made by _analyze_and_retry_tool during this call
    learned,            \* the learn_from_success / learn_from_error calls made on
                        \* self.memory during this call, in order
    guarded,            \* execute_command is registered with a function decorated
                        \* by shield.require_command_permission
    max_iterations,     \* self.max_iterations
    iteration_count,    \* self.iteration_count
    action_log,         \* self.action_log
    runs,               \* the execute_objective calls: where each is suspended, what
                        \* it has done so far and what it returned
    ast_validator       \* a PythonASTValidator: whether it has a shield, its
                        \* violations list, and the code and the is_safe of
                        \* its latest validate_python_code call

shieldVars == <<allowed_commands, allowed_paths, blocked_patterns, links, shield_last>>

approvalVars ==
    <<auto_approve, approved_actions, approval_history, approval_last, granted>>

configVars == <<security_enabled, memory_on, max_retries, tools, guarded>>

callVars ==
    <<stack, ret, call, invoked, validated, attempts, n_retries, learned>>

objVars == <<max_iterations, iteration_count, action_log, runs>>

orchVars == <<configVars, callVars, objVars>>

vars == <<shieldVars, approvalVars, orchVars, ast_validator>>

\* a normal return and a raised exception of a call
Ret(v) == [exc |-> "None", value |-> v]
Raise(e) == [exc |-> e, value |-> FALSE]

\* Path.resolve(): make absolute, then walk the components, dropping ".",
\* stepping up on ".." and following a symbolic link when one is met
RECURSIVE Walk(_, _)
Walk(acc, rest) ==
    IF Len(rest) = 0 THEN acc
    ELSE LET c == Head(rest)
         IN  IF c = "." THEN Walk(acc, Tail(rest))
             ELSE IF c = ".."
                  THEN Walk(IF Len(acc) = 0 THEN acc ELSE SubSeq(acc, 1, Len(acc) - 1),
                            Tail(rest))
                  ELSE IF Append(acc, c) \in links
                       THEN Walk(LinkTarget, Tail(rest))
                       ELSE Walk(Append(acc, c), Tail(rest))

resolve(path) == Walk(<<>>, IF path.abs THEN path.parts ELSE Cwd \o path.parts)

\* Path.exists() of a resolved path
exists(p) == p \in ExistingFiles

\* PurePath.relative_to(other): ValueError unless other's parts lead p's parts
relative_to(p, other) ==
    IF Len(other) <= Len(p) /\ SubSeq(p, 1, Len(other)) = other
    THEN Ret(TRUE)
    ELSE Raise("ValueError")

----------------------------------------------------------------------------
(* SecurityShield                                                          *)

\* SecurityShield.__init__
ShieldInit ==
    /\ allowed_commands = {}
    /\ allowed_paths = {}
    /\ blocked_patterns = DefaultBlockedPatterns

\* is_command_allowed with the allow-list consulted before the patterns
is_command_allowed_allow_first(command) ==
    IF Len(command) = 0 THEN Ret(FALSE)
    ELSE IF Split(Strip(command)) = <<>> THEN Raise("IndexError")
    ELSE IF Lower(Split(Strip(command))[1]) \in allowed_commands THEN Ret(TRUE)
    ELSE Ret(FALSE)

\* is_command_allowed comparing the head as typed, without lower()
is_command_allowed_raw_head(command) ==
    IF Len(command) = 0 THEN Ret(FALSE)
    ELSE IF Split(Strip(command)) = <<>> THEN Raise("IndexError")
    ELSE IF \E i \in 1..Len(blocked_patterns) :
                Search(blocked_patterns[i], Lower(command))
         THEN Ret(FALSE)
         ELSE Ret(Split(Strip(command))[1] \in allowed_commands)

\* is_command_allowed searching the patterns in the command as written
is_command_allowed_case_sensitive(command) ==
    IF Len(command) = 0 THEN Ret(FALSE)
    ELSE IF Split(Strip(command)) = <<>> THEN Raise("IndexError")
    ELSE LET cmd_name == Lower(Split(Strip(command))[1])
         IN  IF \E i \in 1..Len(blocked_patterns) :
                    Search(blocked_patterns[i], command)
             THEN Ret(FALSE)
             ELSE Ret(cmd_name \in allowed_commands)

\* SecurityShield.is_command_allowed
is_command_allowed(command) ==
    IF Len(command) = 0 THEN Ret(FALSE)
    ELSE IF Split(Strip(command)) = <<>> THEN Raise("IndexError")
    ELSE LET cmd_name == Lower(Split(Strip(command))[1])
         IN  IF \E i \in 1..Len(blocked_patterns) :
                    Search(blocked_patterns[i], Lower(command))
             THEN Ret(FALSE)
             ELSE Ret(cmd_name \in allowed_commands)

\* is_path_allowed comparing the path as given, without resolve()
is_path_allowed_unresolved(path) ==
    Ret(\E allowed_path \in allowed_paths :
            relative_to(path.parts, allowed_path).exc = "None")

\* SecurityShield.is_path_allowed
is_path_allowed(path) ==
    LET p == resolve(path)
    IN  Ret(\E allowed_path \in allowed_paths :
                relative_to(p, allowed_path).exc = "None")

\* f"Comando não permitido: {command}"
CommandDeniedMsg(command) == <<"C","o","m","a","n","d","o"," ","n","ã","o"," ","p","e","r","m","i","t","i","d","o",":"," ">> \o command

\* f"Caminho não permitido: {path}"
PathDeniedMsg(path) == <<"C","a","m","i","n","h","o"," ","n","ã","o"," ","p","e","r","m","i","t","i","d","o",":"," ">> \o path.parts

\* raise SecurityViolationError(message)
SecurityViolationError(message) ==
    [exc |-> "SecurityViolationError", value |-> FALSE, message |-> message]

\* validate_command that never raises
validate_command_silent(command) ==
    LET r == is_command_allowed(command)
    IN  IF r.exc # "None" THEN r ELSE Ret(TRUE)

\* SecurityShield.validate_command
validate_command(command) ==
    LET r == is_command_allowed(command)
    IN  IF r.exc # "None" THEN r
        ELSE IF ~r.value THEN SecurityViolationError(CommandDeniedMsg(command))
        ELSE Ret(TRUE)

\* SecurityShield.validate_path
validate_path(path) ==
    IF ~is_path_allowed(path).value
    THEN SecurityViolationError(PathDeniedMsg(path))
    ELSE Ret(TRUE)

NoCmd == <<"<none>">>
NoPath == AbsPath(<<"<none>">>)

ShieldCall(op, cmd, path, r) ==
    [op |-> op, cmd |-> cmd, path |-> path, exc |-> r.exc, value |-> r.value]

\* add_allowed_command replacing the set instead of adding to it
add_allowed_command_replacing(command) ==
    /\ IF Len(command) = 0
       THEN /\ shield_last' = ShieldCall("add_allowed_command", command, NoPath,
                                         Raise("ValueError"))
            /\ UNCHANGED allowed_commands
       ELSE /\ allowed_commands' = {Lower(Strip(command))}
            /\ shield_last' = ShieldCall("add_allowed_command", command, NoPath,
                                         Ret(TRUE))
    /\ UNCHANGED <<allowed_paths, blocked_patterns, links>>

\* add_allowed_command inserting the name as given, without strip() and lower()
add_allowed_command_unnormalized(command) ==
    /\ IF Len(command) = 0
       THEN /\ shield_last' = ShieldCall("add_allowed_command", command, NoPath,
                                         Raise("ValueError"))
            /\ UNCHANGED allowed_commands
       ELSE /\ allowed_commands' = allowed_commands \cup {command}
            /\ shield_last' = ShieldCall("add_allowed_command", command, NoPath,
                                         Ret(TRUE))
    /\ UNCHANGED <<allowed_paths, blocked_patterns, links>>

\* SecurityShield.add_allowed_command
add_allowed_command(command) ==
    /\ IF Len(command) = 0
       THEN /\ shield_last' = ShieldCall("add_allowed_command", command, NoPath,
                                         Raise("ValueError"))
            /\ UNCHANGED allowed_commands
       ELSE LET normalized == Lower(Strip(command))
            IN  /\ allowed_commands' = allowed_commands \cup {normalized}
                /\ shield_last' = ShieldCall("add_allowed_command", command, NoPath,
                                             Ret(TRUE))
    /\ UNCHANGED <<allowed_paths, blocked_patterns, links>>

\* add_allowed_path storing the path as given, without Path.resolve()
add_allowed_path_unresolved(path) ==
    /\ LET p == resolve(path)
       IN  IF ~exists(p)
           THEN /\ shield_last' = ShieldCall("add_allowed_path", NoCmd, path,
                                             Raise("ValueError"))
                /\ UNCHANGED allowed_paths
           ELSE /\ allowed_paths' = allowed_paths \cup {path.parts}
                /\ shield_last' = ShieldCall("add_allowed_path", NoCmd, path, Ret(TRUE))
    /\ UNCHANGED <<allowed_commands, blocked_patterns, links>>

\* SecurityShield.add_allowed_path
add_allowed_path(path) ==
    /\ LET p == resolve(path)
       IN  IF ~exists(p)
           THEN /\ shield_last' = ShieldCall("add_allowed_path", NoCmd, path,
                                             Raise("ValueError"))
                /\ UNCHANGED allowed_paths
           ELSE /\ allowed_paths' = allowed_paths \cup {p}
                /\ shield_last' = ShieldCall("add_allowed_path", NoCmd, path, Ret(TRUE))
    /\ UNCHANGED <<allowed_commands, blocked_patterns, links>>

othersUnchangedByShield == UNCHANGED <<approvalVars, orchVars, ast_validator>>

\* a call of add_allowed_command
AddAllowedCommand(command) == add_allowed_command(command) /\ othersUnchangedByShield

\* a call of add_allowed_path
AddAllowedPath(path) == add_allowed_path(path) /\ othersUnchangedByShield

\* a call of is_command_allowed that remembers the head of an accepted command
IsCommandAllowed_remembering(command) ==
    /\ shield_last' = ShieldCall("is_command_allowed", command, NoPath,
                                 is_command_allowed(command))
    /\ allowed_commands' =
            IF is_command_allowed(command) = Ret(TRUE)
            THEN allowed_commands \cup {Split(Strip(command))[1]}
            ELSE allowed_commands
    /\ UNCHANGED <<allowed_paths, blocked_patterns, links>>
    /\ othersUnchangedByShield

\* a call of is_command_allowed
IsCommandAllowed(command) ==
    /\ shield_last' = ShieldCall("is_command_allowed", command, NoPath,
                                 is_command_allowed(command))
    /\ UNCHANGED <<allowed_commands, allowed_paths, blocked_patterns, links>>
    /\ othersUnchangedByShield

\* a call of is_path_allowed
IsPathAllowed(path) ==
    /\ shield_last' = ShieldCall("is_path_allowed", NoCmd, path, is_path_allowed(path))
    /\ UNCHANGED <<allowed_commands, allowed_paths, blocked_patterns, links>>
    /\ othersUnchangedByShield

\* a call of validate_command
ValidateCommand(command) ==
    /\ shield_last' = ShieldCall("validate_command", command, NoPath,
                                 validate_command(command))
    /\ UNCHANGED <<allowed_commands, allowed_paths, blocked_patterns, links>>
    /\ othersUnchangedByShield

\* a call of validate_path
ValidatePath(path) ==
    /\ shield_last' = ShieldCall("validate_path", NoCmd, path, validate_path(path))
    /\ UNCHANGED <<allowed_commands, allowed_paths, blocked_patterns, links>>
    /\ othersUnchangedByShield

\* a function decorated with require_command_permission that is called
\* even when validate_command raises
require_command_permission_ungated(command, result) ==
    /\ shield_last' = ShieldCall("require_command_permission", command, NoPath,
                                 validate_command(command))
    /\ invoked' = {[func |-> "func", command |-> command, path |-> NoPath,
                    result |-> result]}
    /\ UNCHANGED <<allowed_commands, allowed_paths, blocked_patterns, links>>
    /\ UNCHANGED <<approvalVars, ast_validator, configVars, objVars>>
    /\ UNCHANGED <<stack, ret, call, validated, attempts, n_retries, learned>>

\* a call wrapper(command) of the function that require_command_permission
\* returns for func: invoked records the call of func, with what func
\* returned
require_command_permission(command, result) ==
    /\ LET v == validate_command(command)
       IN  IF v.exc # "None"
           THEN /\ shield_last' = ShieldCall("require_command_permission", command,
                                             NoPath, v)
                /\ invoked' = {}
           ELSE /\ shield_last' = ShieldCall("require_command_permission", command,
                                             NoPath, Ret(result))
                /\ invoked' = {[func |-> "func", command |-> command, path |-> NoPath,
                    result |-> result]}
    /\ UNCHANGED <<allowed_commands, allowed_paths, blocked_patterns, links>>
    /\ UNCHANGED <<approvalVars, ast_validator, configVars, objVars>>
    /\ UNCHANGED <<stack, ret, call, validated, attempts, n_retries, learned>>

\* a call wrapper(path) of the function that require_path_permission returns
require_path_permission(path, result) ==
    /\ LET v == validate_path(path)
       IN  IF v.exc # "None"
           THEN /\ shield_last' = ShieldCall("require_path_permission", NoCmd, path, v)
                /\ invoked' = {}
           ELSE /\ shield_last' = ShieldCall("require_path_permission", NoCmd, path,
                                             Ret(result))
                /\ invoked' = {[func |-> "func", command |-> NoCmd, path |-> path,
                    result |-> result]}
    /\ UNCHANGED <<allowed_commands, allowed_paths, blocked_patterns, links>>
    /\ UNCHANGED <<approvalVars, ast_validator, configVars, objVars>>
    /\ UNCHANGED <<stack, ret, call, validated, attempts, n_retries, learned>>

\* SecurityShield.get_security_report: the dict it returns
get_security_report ==
    [total_allowed_commands |-> Cardinality(allowed_commands),
     allowed_commands |-> allowed_commands,
     total_allowed_paths |-> Cardinality(allowed_paths),
     allowed_paths |-> allowed_paths,
     blocked_patterns |-> Len(blocked_patterns)]

\* a call of get_security_report; the record of the call keeps that a report
\* with its five keys came back
GetSecurityReport ==
    /\ shield_last' = ShieldCall("get_security_report", NoCmd, NoPath,
                                 Ret(Cardinality(DOMAIN get_security_report) = 5))
    /\ UNCHANGED <<allowed_commands, allowed_paths, blocked_patterns, links>>
    /\ othersUnchangedByShield

\* the environment creates the symbolic link /tmp/link -> /etc
CreateSymlink ==
    /\ LinkName \notin links
    /\ links' = links \cup {LinkName}
    /\ UNCHANGED <<allowed_commands, allowed_paths, blocked_patterns, shield_last>>
    /\ othersUnchangedByShield

\* the environment removes it again
RemoveSymlink ==
    /\ LinkName \in links
    /\ links' = links \ {LinkName}
    /\ UNCHANGED <<allowed_commands, allowed_paths, blocked_patterns, shield_last>>
    /\ othersUnchangedByShield

----------------------------------------------------------------------------
(* PythonASTValidator                                                      *)

\* PythonASTValidator.DANGEROUS_IMPORTS
DANGEROUS_IMPORTS ==
    {"os.system", "os.popen", "subprocess.call", "subprocess.run", "subprocess.Popen",
     "shutil.rmtree", "shutil.copy", "eval", "exec", "compile", "__import__"}

\* PythonASTValidator.DANGEROUS_BUILTINS
DANGEROUS_BUILTINS ==
    {"eval", "exec", "compile", "open", "__import__", "globals", "locals"}

\* a node of the tree ast.parse returns, with what the checks read of it:
\* Import.names and ImportFrom.module / names (the alias names), and for a
\* Call its func (a Name with its id, an Attribute with its attr) and
\* args[0] ("str": a Constant holding the given path as a str, "other": any
\* other expression, "none": no argument).  "Other" is any other node
Node(type, module, names, func, name, arg, path) ==
    [type |-> type, module |-> module, names |-> names, func |-> func, name |-> name,
     arg |-> arg, path |-> path]

\* the scripts given to validate_python_code: the source, whether ast.parse
\* accepts it, and the nodes in the order ast.walk yields them
Scripts ==
    {[code |-> "import subprocess; subprocess.run('rm -rf /')", parses |-> TRUE,
      nodes |-> <<Node("Other", "", <<>>, "", "", "none", NoPath),
                  Node("Import", "", <<"subprocess">>, "", "", "none", NoPath),
                  Node("Call", "", <<>>, "Attribute", "run", "other", NoPath)>>],
     [code |-> "import subprocess; subprocess.Popen(['ls'])", parses |-> TRUE,
      nodes |-> <<Node("Import", "", <<"subprocess">>, "", "", "none", NoPath),
                  Node("Call", "", <<>>, "Attribute", "Popen", "other", NoPath)>>],
     [code |-> "import os; os.system('ls')", parses |-> TRUE,
      nodes |-> <<Node("Import", "", <<"os">>, "", "", "none", NoPath),
                  Node("Call", "", <<>>, "Attribute", "system", "other", NoPath)>>],
     [code |-> "import os.system", parses |-> TRUE,
      nodes |-> <<Node("Import", "", <<"os.system">>, "", "", "none", NoPath)>>],
     [code |-> "from subprocess import run", parses |-> TRUE,
      nodes |-> <<Node("ImportFrom", "subprocess", <<"run">>, "", "", "none", NoPath)>>],
     [code |-> "from os import path, system", parses |-> TRUE,
      nodes |-> <<Node("ImportFrom", "os", <<"path", "system">>, "", "", "none",
                       NoPath)>>],
     [code |-> "from . import x", parses |-> TRUE,
      nodes |-> <<Node("ImportFrom", "", <<"x">>, "", "", "none", NoPath)>>],
     [code |-> "def f(:", parses |-> FALSE, nodes |-> <<>>],
     [code |-> "x = 1", parses |-> TRUE,
      nodes |-> <<Node("Other", "", <<>>, "", "", "none", NoPath)>>],
     [code |-> "eval('1')", parses |-> TRUE,
      nodes |-> <<Node("Call", "", <<>>, "Name", "eval", "other", NoPath)>>],
     [code |-> "obj.__import__('os')", parses |-> TRUE,
      nodes |-> <<Node("Call", "", <<>>, "Attribute", "__import__", "other", NoPath)>>],
     [code |-> "print('hi')", parses |-> TRUE,
      nodes |-> <<Node("Call", "", <<>>, "Name", "print", "other", NoPath)>>],
     [code |-> "open(p)", parses |-> TRUE,
      nodes |-> <<Node("Call", "", <<>>, "Name", "open", "other", NoPath)>>],
     [code |-> "open('/tmp/file.txt')", parses |-> TRUE,
      nodes |-> <<Node("Call", "", <<>>, "Name", "open", "str", p_tmp_file)>>],
     [code |-> "open('/tmp/../../etc/passwd')", parses |-> TRUE,
      nodes |-> <<Node("Call", "", <<>>, "Name", "open", "str", p_traversal)>>],
     [code |-> "open('/etc/passwd')", parses |-> TRUE,
      nodes |-> <<Node("Call", "", <<>>, "Name", "open", "str", p_etc_passwd)>>]}

\* PythonASTValidator._check_import: the violations it appends for a node
_check_import(node) ==
    IF node.type = "Import"
    THEN LET found[i \in 0..Len(node.names)] ==
                IF i = 0 THEN <<>>
                ELSE found[i - 1] \o
                     (IF node.names[i] \in DANGEROUS_IMPORTS
                      THEN <<<<"Dangerous import", node.names[i]>>>> ELSE <<>>)
         IN  found[Len(node.names)]
    ELSE IF node.type = "ImportFrom" /\ node.module # ""
    THEN LET full_import(i) == node.module \o "." \o node.names[i]
             found[i \in 0..Len(node.names)] ==
                IF i = 0 THEN <<>>
                ELSE found[i - 1] \o
                     (IF full_import(i) \in DANGEROUS_IMPORTS
                      THEN <<<<"Dangerous import", full_import(i)>>>> ELSE <<>>) \o
                     (IF node.names[i] \in {"system", "popen", "call", "Popen"}
                      THEN <<<<"Dangerous import", full_import(i)>>>> ELSE <<>>)
         IN  found[Len(node.names)]
    ELSE <<>>

\* PythonASTValidator._check_function_call
_check_function_call(node) ==
    IF node.type = "Call" /\ node.func = "Name" /\ node.name \in DANGEROUS_BUILTINS
    THEN <<<<"Dangerous builtin call", node.name>>>>
    ELSE IF node.type = "Call" /\ node.func = "Attribute"
            /\ node.name \in {"__import__", "__class__", "__bases__"}
    THEN <<<<"Dangerous attribute access", node.name>>>>
    ELSE <<>>

\* PythonASTValidator._check_builtin_call
_check_builtin_call(node) ==
    IF /\ node.type = "Call" /\ node.func = "Name" /\ node.name = "open"
       /\ ast_validator.shield /\ node.arg = "str"
       /\ is_path_allowed(node.path) = Ret(FALSE)
    THEN <<<<"File access not allowed", "path">>>>
    ELSE <<>>

\* validate_python_code returning (True, []) for a source that does not parse
validate_python_code_fail_open(script) ==
    /\ ast_validator' = [ast_validator EXCEPT !.violations = <<>>,
                                              !.code = script.code,
                                              !.is_safe = TRUE]
    /\ UNCHANGED <<shieldVars, approvalVars, orchVars>>

\* PythonASTValidator.validate_python_code
validate_python_code(script) ==
    /\ IF ~script.parses
       THEN ast_validator' = [ast_validator EXCEPT
                                !.violations = <<<<"Syntax error", "e">>>>,
                                !.code = script.code,
                                !.is_safe = FALSE]
       ELSE LET violations[i \in 0..Len(script.nodes)] ==
                    IF i = 0 THEN <<>>
                    ELSE violations[i - 1] \o _check_import(script.nodes[i])
                             \o _check_function_call(script.nodes[i])
                             \o _check_builtin_call(script.nodes[i])
            IN  ast_validator' = [ast_validator EXCEPT
                                    !.violations = violations[Len(script.nodes)],
                                    !.code = script.code,
                                    !.is_safe = (Len(violations[Len(script.nodes)]) = 0)]
    /\ UNCHANGED <<shieldVars, approvalVars, orchVars>>

----------------------------------------------------------------------------
(* ApprovalManager                                                         *)

\* ApprovalManager.CRITICAL_KEYWORDS
CRITICAL_KEYWORDS ==
    {<<"d","e","l","e","t","e">>,
     <<"r","e","m","o","v","e">>,
     <<"r","m">>,
     <<"r","m","d","i","r">>,
     <<"f","o","r","m","a","t">>,
     <<"m","k","f","s">>,
     <<"d","d">>,
     <<"s","u","d","o">>,
     <<"c","h","m","o","d">>,
     <<"c","h","o","w","n">>,
     <<"n","e","t","w","o","r","k">>,
     <<"f","i","r","e","w","a","l","l">>,
     <<"i","p","t","a","b","l","e","s">>,
     <<"i","n","s","t","a","l","l">>,
     <<"u","n","i","n","s","t","a","l","l">>,
     <<"a","p","t">>,
     <<"p","i","p">>,
     <<"b","r","e","w">>,
     <<"r","e","b","o","o","t">>,
     <<"s","h","u","t","d","o","w","n">>,
     <<"h","a","l","t">>}

\* "apt install package"
a_apt_install == <<"a","p","t"," ","i","n","s","t","a","l","l"," ","p","a","c","k","a","g","e">>

\* the action strings submitted for approval
Actions == {a_apt_install, c_rm_rf, <<"e","c","h","o"," ","h","i">>}   \* "echo hi"

\* the strings is_critical is asked about: the demo's commands, a keyword in
\* upper case, a keyword inside a longer word, and commands without keyword
CriticalInputs ==
    Actions \cup
    {c_ls_la,
     <<"S","U","D","O"," ","l","s">>,                 \* "SUDO ls"
     <<"c","a","t"," ","a","d","d","r","e","s","s">>, \* "cat address"
     <<>>}

\* the context argument of require_approval
Contexts == {"None", "Package installation"}



\* what the approval channel (Confirm.ask, or input() as fallback) answers:
\* yes, no, or input() fails with EOFError in a non-interactive environment
ChannelAnswers == {"yes", "no", "EOFError"}

NoAction == <<"<none>">>

\* ApprovalManager.__init__
ApprovalInit ==
    /\ auto_approve \in BOOLEAN
    /\ approved_actions = {}
    /\ approval_history = <<>>
    /\ approval_last = [op |-> "<none>", action |-> NoAction, exc |-> "None",
                        value |-> FALSE, prompted |-> FALSE, callback_called |-> FALSE]
    /\ granted = {}

\* is_critical without command.lower()
is_critical_case_sensitive(command) ==
    \E keyword \in CRITICAL_KEYWORDS : Contains(command, keyword)

\* ApprovalManager.is_critical
is_critical(command) ==
    LET cmd_lower == Lower(command)
    IN  \E keyword \in CRITICAL_KEYWORDS : Contains(cmd_lower, keyword)

\* the state require_approval leaves when the approved action is not cached
approved_actions_not_cached(action) == approved_actions

\* the state require_approval leaves when the channel approved the action
approved_actions_after(action) == approved_actions \cup {action}

\* require_approval whose auto-approve branch falls through to the bookkeeping
\* of an approved action
require_approval_auto_recorded(action, context, has_callback, answer) ==
    IF auto_approve
    THEN /\ approval_last' = [op |-> "require_approval", action |-> action,
                              exc |-> "None", value |-> TRUE,
                              prompted |-> FALSE, callback_called |-> has_callback]
         /\ approved_actions' = approved_actions \cup {action}
         /\ approval_history' =
                Append(approval_history,
                       [action |-> action, context |-> context, approved |-> TRUE])
         /\ granted' = granted \cup {action}
         /\ UNCHANGED auto_approve
    ELSE /\ approval_last' = [op |-> "require_approval", action |-> action,
                              exc |-> "None", value |-> action \in approved_actions,
                              prompted |-> FALSE, callback_called |-> FALSE]
         /\ UNCHANGED <<auto_approve, approved_actions, approval_history, granted>>

\* ApprovalManager.require_approval
require_approval(action, context, has_callback, answer) ==
    IF auto_approve
    THEN /\ approval_last' = [op |-> "require_approval", action |-> action,
                              exc |-> "None", value |-> TRUE,
                              prompted |-> FALSE, callback_called |-> FALSE]
         /\ granted' = granted \cup {action}
         /\ UNCHANGED <<auto_approve, approved_actions, approval_history>>
    ELSE IF action \in approved_actions
    THEN /\ approval_last' = [op |-> "require_approval", action |-> action,
                              exc |-> "None", value |-> TRUE,
                              prompted |-> FALSE, callback_called |-> FALSE]
         /\ granted' = granted \cup {action}
         /\ UNCHANGED <<auto_approve, approved_actions, approval_history>>
    ELSE IF answer = "EOFError"
    THEN /\ approval_last' = [op |-> "require_approval", action |-> action,
                              exc |-> "EOFError", value |-> FALSE,
                              prompted |-> TRUE, callback_called |-> FALSE]
         /\ UNCHANGED <<auto_approve, approved_actions, approval_history, granted>>
    ELSE LET approved == (answer = "yes")
         IN  /\ approved_actions' =
                    IF approved THEN approved_actions_after(action) ELSE approved_actions
             /\ approval_history' =
                    IF approved
                    THEN Append(approval_history,
                                [action |-> action, context |-> context, approved |-> TRUE])
                    ELSE approval_history
             /\ approval_last' = [op |-> "require_approval", action |-> action,
                                  exc |-> "None", value |-> approved,
                                  prompted |-> TRUE, callback_called |-> has_callback]
             /\ granted' = IF approved THEN granted \cup {action} ELSE granted
             /\ UNCHANGED auto_approve

----------------------------------------------------------------------------
(* PyOSOrchestrator: tool registry, security wrapper, _execute_tool and    *)
(* the self-healing retry                                                  *)


\* the tools the application registers with register_tool
RegisteredNames == {"execute_command", "read_file"}

\* a tool name as a Python string
NameChars(tool_name) ==
    CASE tool_name = "execute_command" -> <<"e","x","e","c","u","t","e","_","c","o","m","m","a","n","d">>
      [] tool_name = "read_file" -> <<"r","e","a","d","_","f","i","l","e">>
      [] OTHER -> <<"u","n","k","n","o","w","n","_","t","o","o","l">>

\* a key that tool_args does not hold
Absent == <<"<absent>">>
AbsentPath == AbsPath(<<"<absent>">>)

\* tool_args: the keyword arguments of a tool call
Args(command, path) == [command |-> command, path |-> path]
NoArgs == Args(Absent, AbsentPath)

\* str(e) of the IndexError raised by [][0]
e_index == <<"l","i","s","t"," ","i","n","d","e","x"," ","o","u","t"," ","o","f"," ","r","a","n","g","e">>

\* str(e) of the TypeError raised by None[:100]
e_type == <<"'","N","o","n","e","T","y","p","e","'"," ","o","b","j","e","c","t"," ","i","s"," ","n","o","t"," ","s","u","b","s","c","r","i","p","t","a","b","l","e">>

NoError == <<"<None>">>


\* what the registered function does when it is called: it returns a plain
\* value, a ToolResult (successful with text, successful with output None,
\* or failed with an error), or it raises
ToolOutcomes ==
    {[k |-> "value", error |-> NoError], [k |-> "ok_none", error |-> NoError]}
    \cup {[k |-> "fail", error |-> e] :
            e \in {\* "Permission denied"
                   <<"P","e","r","m","i","s","s","i","o","n"," ","d","e","n","i","e","d">>,
                   \* "python: command not found"
                   <<"p","y","t","h","o","n",":"," ","c","o","m","m","a","n","d"," ","n","o","t"," ","f","o","u","n","d">>}}
    \cup {[k |-> "raise", error |-> <<"b","o","o","m">>]}

\* ToolResult, with exc naming an exception that escaped instead of a result
ToolResult(success, output, error, timed) ==
    [exc |-> "None", success |-> success, output |-> output, error |-> error,
     timed |-> timed]
Escaped(e) ==
    [exc |-> e, success |-> FALSE, output |-> "", error |-> NoError, timed |-> FALSE]
NoResult ==
    [exc |-> "<none>", success |-> FALSE, output |-> "", error |-> NoError,
     timed |-> FALSE]

\* int to str for the retry limit
IntStr(n) == <<(<<"0", "1", "2", "3", "4", "5", "6", "7", "8", "9">>)[n + 1]>>

\* f"Ferramenta não registrada: {tool_name}"
NotRegisteredMsg(tool_name) == <<"F","e","r","r","a","m","e","n","t","a"," ","n","ã","o"," ","r","e","g","i","s","t","r","a","d","a",":"," ">> \o NameChars(tool_name)

\* f"Ferramenta não encontrada: {tool_name}"
NotFoundMsg(tool_name) == <<"F","e","r","r","a","m","e","n","t","a"," ","n","ã","o"," ","e","n","c","o","n","t","r","a","d","a",":"," ">> \o NameChars(tool_name)

\* f"Falha permanente após {self.max_retries} tentativas: {original_error}"
ExhaustedMsg(n, original_error) ==
    <<"F","a","l","h","a"," ","p","e","r","m","a","n","e","n","t","e"," ","a","p","ó","s"," ">> \o IntStr(n) \o <<" ","t","e","n","t","a","t","i","v","a","s",":"," ">>
        \o original_error


\* the retry limit set by PyOSOrchestrator.__init__
DefaultMaxRetries == 3

\* the largest retry limit an application configures afterwards
MaxRetriesCfg == 2

\* depth of the call stack at which the interpreter raises RecursionError
MaxStack == 6

\* the invocations of one _execute_tool call at which the tool function may
\* misbehave: from then on it returns a plain value
MaxInvocations == 4


\* no tool call has been served under the present configuration
NoCall ==
    [tool |-> "unknown_tool", args |-> NoArgs, result |-> NoResult, direct |-> FALSE]

\* the largest max_iterations an orchestrator is constructed with
MaxIterationsCfg == 2

\* the execute_objective calls that may be in flight on one orchestrator
Runs == {1, 2}

\* the dict execute_objective returns; error names the failure
ObjectiveResult(success, iterations, error, log) ==
    [success |-> success, iterations |-> iterations, error |-> error,
     action_log |-> log]

\* an execute_objective call that has not started: where it is, how often it
\* has called _call_model, whether the provider signalled done, how many tool
\* function invocations it caused, the entries it appended itself, its result
NewRun ==
    [pc |-> "idle", consults |-> 0, done_seen |-> FALSE, invocations |-> 0,
     own_log |-> <<>>, result |-> ObjectiveResult(FALSE, 0, "<none>", <<>>)]

\* PyOSOrchestrator.__init__
OrchInit ==
    /\ security_enabled \in BOOLEAN
    /\ memory_on \in BOOLEAN
    /\ max_retries = DefaultMaxRetries
    /\ tools = {}
    /\ guarded = FALSE
    /\ max_iterations \in 0..MaxIterationsCfg
    /\ iteration_count = 0
    /\ action_log = <<>>
    /\ runs = [r \in Runs |-> NewRun]
    /\ stack = <<>>
    /\ ret = NoResult
    /\ call = NoCall
    /\ invoked = {}
    /\ validated = {}
    /\ attempts = <<>>
    /\ n_retries = 0
    /\ learned = <<>>

\* what the wrapper built by _wrap_tool_with_security does with one call:
\* the result it returns, whether the tool function was called, and whether
\* SecurityShield validated the argument.  positional tells whether the
\* argument came in *args (a call f(x)) or in **kwargs (a call f(command=x))
WrapperOut(result, called, checked) ==
    [result |-> result, called |-> called, checked |-> checked]

\* the result of calling func(*args, **kwargs) and converting what it returns
FuncResult(outcome) ==
    CASE outcome.k = "value" -> ToolResult(TRUE, "text", NoError, TRUE)
      [] outcome.k = "ok_none" -> ToolResult(TRUE, "None", NoError, TRUE)
      [] outcome.k = "fail" -> ToolResult(FALSE, "", outcome.error, TRUE)
      [] outcome.k = "raise" -> ToolResult(FALSE, "", outcome.error, TRUE)

\* PyOSOrchestrator._wrap_tool_with_security.wrapper
wrapper(tool_name, tool_args, positional, outcome) ==
    IF tool_name \notin tools
    THEN WrapperOut(ToolResult(FALSE, "", NotRegisteredMsg(tool_name), FALSE),
                    FALSE, FALSE)
    ELSE IF tool_name = "execute_command" /\ positional /\ security_enabled
            /\ validate_command(tool_args.command).exc = "SecurityViolationError"
    THEN WrapperOut(ToolResult(FALSE, "", CommandDeniedMsg(tool_args.command), FALSE),
                    FALSE, FALSE)
    ELSE IF tool_name = "execute_command" /\ positional /\ security_enabled
            /\ validate_command(tool_args.command).exc # "None"
    THEN WrapperOut(ToolResult(FALSE, "", e_index, TRUE), FALSE, FALSE)
    ELSE IF tool_name = "read_file" /\ positional /\ security_enabled
            /\ validate_path(tool_args.path).exc = "SecurityViolationError"
    THEN WrapperOut(ToolResult(FALSE, "", PathDeniedMsg(tool_args.path), FALSE),
                    FALSE, FALSE)
    ELSE IF tool_name = "execute_command" /\ guarded
            /\ validate_command(tool_args.command).exc = "SecurityViolationError"
    THEN \* func is the decorated function: its validate_command raises and the
         \* wrapper's "except Exception" turns the exception into a result
         WrapperOut(ToolResult(FALSE, "", CommandDeniedMsg(tool_args.command), TRUE),
                    FALSE, FALSE)
    ELSE IF tool_name = "execute_command" /\ guarded
            /\ validate_command(tool_args.command).exc # "None"
    THEN WrapperOut(ToolResult(FALSE, "", e_index, TRUE), FALSE, FALSE)
    ELSE WrapperOut(FuncResult(outcome), TRUE,
                    \/ /\ positional
                       /\ security_enabled
                       /\ tool_name \in {"execute_command", "read_file"}
                    \/ tool_name = "execute_command" /\ guarded)

\* ExecuteCommandTool.requires_approval, BaseTool.requires_approval
requires_approval(tool_name) == tool_name = "execute_command"

s_command_not_found == <<"c","o","m","m","a","n","d"," ","n","o","t"," ","f","o","u","n","d">>

s_sudo == <<"s","u","d","o">>

\* the variants dict of _propose_error_fix, in its iteration order
variants ==
    <<[old |-> <<"p","y","t","h","o","n">>, new |-> <<"p","y","t","h","o","n","3">>],
      [old |-> <<"n","o","d","e">>, new |-> <<"n","o","d","e","j","s">>],
      [old |-> <<"p","i","p">>, new |-> <<"p","i","p","3">>]>>

\* corrected.get("command", "")
GetCommand(tool_args) == IF tool_args.command = Absent THEN <<>> ELSE tool_args.command

\* the loop over variants: the first entry whose old name starts cmd rewrites it
ApplyVariants(tool_args) ==
    LET cmd == GetCommand(tool_args)
        hits == {i \in 1..Len(variants) : StartsWith(cmd, variants[i].old)}
    IN  IF hits = {} THEN tool_args
        ELSE [tool_args EXCEPT
                !.command = ReplaceFirst(cmd, variants[Min(hits)].old,
                                         variants[Min(hits)].new)]

\* a fix that escalates whatever the error and the tool are
_propose_error_fix_always(tool_name, tool_args, error) ==
    [tool_args EXCEPT !.command = s_sudo \o <<" ">> \o GetCommand(tool_args)]

\* _propose_error_fix without the startswith("sudo") test
_propose_error_fix_stacking(tool_name, tool_args, error) ==
    IF /\ Contains(Lower(error), <<"p","e","r","m","i","s","s","i","o","n"," ","d","e","n","i","e","d">>)
       /\ tool_name = "execute_command"
    THEN [tool_args EXCEPT !.command = s_sudo \o <<" ">> \o GetCommand(tool_args)]
    ELSE tool_args

\* PyOSOrchestrator._propose_error_fix
_propose_error_fix(tool_name, tool_args, error) ==
    LET error_lower == Lower(error)
    IN  IF Contains(error_lower, <<"p","e","r","m","i","s","s","i","o","n"," ","d","e","n","i","e","d">>)
        THEN IF tool_name = "execute_command"
                /\ ~StartsWith(GetCommand(tool_args), s_sudo)
             THEN [tool_args EXCEPT !.command = s_sudo \o <<" ">> \o GetCommand(tool_args)]
             ELSE tool_args
        ELSE IF \/ Contains(error_lower, <<"n","o"," ","s","u","c","h"," ","f","i","l","e">>)
                \/ Contains(error_lower, <<"n","o","t"," ","f","o","u","n","d">>)
        THEN tool_args
        ELSE IF Contains(error_lower, s_command_not_found)
        THEN IF tool_name = "execute_command" THEN ApplyVariants(tool_args) ELSE tool_args
        ELSE tool_args


\* a frame of the call stack: an _execute_tool frame ("exec") or an
\* _analyze_and_retry_tool frame ("retry") with its attempt, original_error,
\* tool_args and, once computed, corrected_args
Frame(kind, tool_name, tool_args, attempt, error, pc) ==
    [kind |-> kind, tool |-> tool_name, args |-> tool_args, corrected |-> tool_args,
     attempt |-> attempt, error |-> error, pc |-> pc]

Top == stack[Len(stack)]
Pop == SubSeq(stack, 1, Len(stack) - 1)
SetTop(f) == [stack EXCEPT ![Len(stack)] = f]

Idle == stack = <<>> /\ ret = NoResult

\* tool function invocations during this call
n_invocations == Len(attempts)

\* whether the tool function raised during this call
raised_in_tool == \E i \in 1..Len(attempts) : attempts[i].k = "raise"

CallRecordCleared ==
    /\ call' = NoCall
    /\ invoked' = {}
    /\ validated' = {}
    /\ attempts' = <<>>
    /\ n_retries' = 0
    /\ learned' = <<>>
    /\ UNCHANGED <<stack, ret>>

\* PyOSOrchestrator.register_tool
RegisterTool(name) ==
    /\ Idle
    /\ tools' = tools \cup {name}
    /\ CallRecordCleared
    /\ guarded' = (guarded /\ name # "execute_command")
    /\ UNCHANGED <<security_enabled, memory_on, max_retries>>
    /\ UNCHANGED <<shieldVars, approvalVars, ast_validator, objVars>>

\* register_tool("execute_command", shield.require_command_permission(f)):
\* the registered function validates its command with the shield before f runs
RegisterGuardedTool ==
    /\ Idle
    /\ tools' = tools \cup {"execute_command"}
    /\ guarded' = TRUE
    /\ CallRecordCleared
    /\ UNCHANGED <<security_enabled, memory_on, max_retries>>
    /\ UNCHANGED <<shieldVars, approvalVars, ast_validator, objVars>>

\* orchestrator.max_retries = n
SetMaxRetries(n) ==
    /\ Idle
    /\ max_retries' = n
    /\ CallRecordCleared
    /\ UNCHANGED <<security_enabled, memory_on, tools, guarded>>
    /\ UNCHANGED <<shieldVars, approvalVars, ast_validator, objVars>>

\* shield.add_allowed_command on the orchestrator's shield
ConfigureShield(name) ==
    /\ Idle
    /\ add_allowed_command(name)
    /\ CallRecordCleared
    /\ UNCHANGED <<configVars, approvalVars, ast_validator, objVars>>

\* a call of PyOSOrchestrator._execute_tool(tool_name, tool_args), the call
\* execute_objective makes for its tool decisions
ExecuteTool(tool_name, tool_args) ==
    /\ Idle
    /\ stack' = <<Frame("exec", tool_name, tool_args, 0, NoError, "start")>>
    /\ call' = [tool |-> tool_name, args |-> tool_args, result |-> NoResult,
                direct |-> FALSE]
    /\ invoked' = {}
    /\ validated' = {}
    /\ attempts' = <<>>
    /\ n_retries' = 0
    /\ learned' = <<>>
    /\ UNCHANGED ret
    /\ UNCHANGED <<configVars, shieldVars, approvalVars, ast_validator, objVars>>

\* a call of the registered wrapper with the argument passed positionally
CallToolDirect(tool_name, tool_args, outcome) ==
    /\ Idle
    /\ tool_name \in tools
    /\ LET w == wrapper(tool_name, tool_args, TRUE, outcome)
       IN  /\ call' = [tool |-> tool_name, args |-> tool_args, result |-> w.result,
                       direct |-> TRUE]
           /\ invoked' = IF w.called THEN {[tool |-> tool_name, args |-> tool_args]}
                         ELSE {}
           /\ validated' = IF w.checked THEN {[tool |-> tool_name, args |-> tool_args]}
                           ELSE {}
           /\ attempts' = IF w.called THEN <<outcome>> ELSE <<>>
    /\ n_retries' = 0
    /\ learned' = <<>>
    /\ UNCHANGED <<stack, ret>>
    /\ UNCHANGED <<configVars, shieldVars, approvalVars, ast_validator, objVars>>

\* the frames pushed on a stack that is full: RecursionError escapes the call
Overflow ==
    /\ stack' = <<>>
    /\ ret' = NoResult
    /\ call' = [call EXCEPT !.result = Escaped("RecursionError")]

\* PyOSOrchestrator._execute_tool, up to its return or its call of
\* _analyze_and_retry_tool: the registry check, the wrapper with the arguments
\* passed as keywords, learn_from_success and the except clause
RunTool(outcome) ==
    /\ stack # <<>>
    /\ ret = NoResult
    /\ Top.kind = "exec" /\ Top.pc = "start"
    /\ IF Top.tool \notin tools
       THEN /\ ret' = ToolResult(FALSE, "", NotFoundMsg(Top.tool), FALSE)
            /\ stack' = Pop
            /\ UNCHANGED <<call, invoked, validated, attempts, learned>>
       ELSE /\ Len(attempts) < MaxInvocations \/ outcome.k = "value"
            /\ LET w == wrapper(Top.tool, Top.args, FALSE, outcome)
                   key == [tool |-> Top.tool, args |-> Top.args]
               IN  /\ invoked' = IF w.called THEN invoked \cup {key} ELSE invoked
                   /\ validated' = IF w.checked THEN validated \cup {key} ELSE validated
                   /\ attempts' = IF w.called THEN Append(attempts, outcome) ELSE attempts
                   /\ IF w.result.success /\ memory_on /\ w.result.output = "None"
                      THEN \* result.output[:100] raises TypeError: the except clause
                           /\ UNCHANGED learned
                           /\ IF Len(stack) >= MaxStack
                              THEN Overflow
                              ELSE /\ stack' = Append(SetTop([Top EXCEPT !.pc = "in_except"]),
                                                      Frame("retry", Top.tool, Top.args, 1,
                                                            e_type, "start"))
                                   /\ UNCHANGED <<ret, call>>
                      ELSE /\ ret' = w.result
                           /\ stack' = Pop
                           /\ learned' =
                                IF w.result.success /\ memory_on
                                THEN Append(learned,
                                            [call |-> "learn_from_success", attempt |-> 0,
                                             error |-> NoError, original_error |-> NoError])
                                ELSE learned
                           /\ UNCHANGED call
    /\ UNCHANGED n_retries
    /\ UNCHANGED <<configVars, shieldVars, approvalVars, ast_validator, objVars>>

\* PyOSOrchestrator._analyze_and_retry_tool, up to its return or its call of
\* _execute_tool with the corrected arguments
Recover ==
    /\ stack # <<>>
    /\ ret = NoResult
    /\ Top.kind = "retry" /\ Top.pc = "start"
    /\ IF Top.attempt > max_retries
       THEN /\ ret' = ToolResult(FALSE, "", ExhaustedMsg(max_retries, Top.error), FALSE)
            /\ stack' = Pop
            /\ UNCHANGED <<call, n_retries>>
       ELSE LET corrected_args == _propose_error_fix(Top.tool, Top.args, Top.error)
            IN  IF Len(stack) >= MaxStack
                THEN Overflow /\ UNCHANGED n_retries
                ELSE /\ stack' = Append(SetTop([Top EXCEPT !.corrected = corrected_args,
                                                           !.pc = "await_exec"]),
                                        Frame("exec", Top.tool, corrected_args, 0, NoError,
                                              "start"))
                     /\ n_retries' = n_retries + 1
                     /\ UNCHANGED <<ret, call>>
    /\ UNCHANGED <<invoked, validated, attempts, learned>>
    /\ UNCHANGED <<configVars, shieldVars, approvalVars, ast_validator, objVars>>

\* the return path that reports nothing to self.memory
Return_unreported ==
    /\ ret # NoResult
    /\ IF stack = <<>>
       THEN /\ call' = [call EXCEPT !.result = ret]
            /\ ret' = NoResult
            /\ UNCHANGED stack
       ELSE IF Top.kind = "retry" /\ Top.pc = "await_exec" /\ ~ret.success
       THEN IF Len(stack) >= MaxStack
            THEN Overflow
            ELSE /\ stack' = Append(SetTop([Top EXCEPT !.pc = "tail"]),
                                    Frame("retry", Top.tool, Top.corrected, Top.attempt + 1,
                                          IF ret.error # NoError /\ ret.error # <<>>
                                          THEN ret.error ELSE Top.error,
                                          "start"))
                 /\ ret' = NoResult
                 /\ UNCHANGED call
       ELSE /\ stack' = Pop
            /\ UNCHANGED <<ret, call>>
    /\ UNCHANGED <<invoked, validated, attempts, n_retries, learned>>
    /\ UNCHANGED <<configVars, shieldVars, approvalVars, ast_validator, objVars>>

\* a result comes back to the frame on top of the stack, or to the caller of
\* _execute_tool when the stack is empty.  _analyze_and_retry_tool returns a
\* successful retry and otherwise calls itself with attempt + 1; a frame that
\* was left by "return await ..." passes the result on
Return ==
    /\ ret # NoResult
    /\ IF stack = <<>>
       THEN /\ call' = [call EXCEPT !.result = ret]
            /\ ret' = NoResult
            /\ UNCHANGED <<stack, learned>>
       ELSE IF Top.kind = "retry" /\ Top.pc = "await_exec" /\ ~ret.success
       THEN /\ learned' =
                IF memory_on
                THEN Append(learned,
                            [call |-> "learn_from_error", attempt |-> Top.attempt,
                             error |-> ret.error, original_error |-> Top.error])
                ELSE learned
            /\ IF Len(stack) >= MaxStack
               THEN Overflow
               ELSE /\ stack' = Append(SetTop([Top EXCEPT !.pc = "tail"]),
                                       Frame("retry", Top.tool, Top.corrected, Top.attempt + 1,
                                             IF ret.error # NoError /\ ret.error # <<>>
                                             THEN ret.error ELSE Top.error,
                                             "start"))
                    /\ ret' = NoResult
                    /\ UNCHANGED call
       ELSE /\ stack' = Pop
            /\ learned' =
                IF Top.kind = "retry" /\ Top.pc = "await_exec" /\ memory_on
                THEN Append(learned,
                            [call |-> "learn_from_success", attempt |-> Top.attempt,
                             error |-> NoError, original_error |-> Top.error])
                ELSE learned
            /\ UNCHANGED <<ret, call>>
    /\ UNCHANGED <<invoked, validated, attempts, n_retries>>
    /\ UNCHANGED <<configVars, shieldVars, approvalVars, ast_validator, objVars>>

----------------------------------------------------------------------------
(* PyOSOrchestrator.execute_objective                                      *)

\* the fields of the ToolResult dataclass
ToolResultFields == {"success", "output", "error", "execution_time_ms", "metadata"}

\* ActionLog(iteration, action_type, tool_name, success)
ActionLog(iteration, action_type, tool_name, success) ==
    [iteration |-> iteration, action_type |-> action_type, tool_name |-> tool_name,
     success |-> success]

\* _log_action replacing the log by the new entry
_log_action_replacing(log, action_type, tool_name, success) ==
    <<ActionLog(iteration_count, action_type, tool_name, success)>>

\* PyOSOrchestrator._log_action: the log after the call
_log_action(log, action_type, tool_name, success) ==
    Append(log, ActionLog(iteration_count, action_type, tool_name, success))

\* PyOSOrchestrator._format_action_log
_format_action_log(log) ==
    [i \in 1..Len(log) |->
        [iteration |-> log[i].iteration, type |-> log[i].action_type,
         tool |-> log[i].tool_name, success |-> log[i].success]]

\* what _call_model may answer: done, a registered tool with its arguments,
\* a tool that is not registered, or no tool name at all
Decisions ==
    {[done |-> TRUE, tool_name |-> "None", tool_args |-> NoArgs],
     [done |-> FALSE, tool_name |-> "execute_command",
      tool_args |-> Args(c_python, AbsentPath)],
     [done |-> FALSE, tool_name |-> "take_screenshot", tool_args |-> NoArgs],
     [done |-> FALSE, tool_name |-> "None", tool_args |-> NoArgs]}

\* the loop test with <= in place of <
loop_continues_inclusive(count) == count <= max_iterations

\* while self.iteration_count < self.max_iterations
loop_continues(count) == count < max_iterations

\* the run stops: it keeps the dict it returns
Returned(me, success, iterations, error, log) ==
    [me EXCEPT !.pc = "returned",
               !.result = ObjectiveResult(success, iterations, error,
                                          _format_action_log(log))]

\* the head of the while loop, reached with iteration_count = count and
\* action_log = log: either the next iteration starts and the run is suspended
\* in "await self._call_model", or the budget is used up and the run returns
LoopHead(r, me, count, log) ==
    /\ action_log' = log
    /\ IF loop_continues(count)
       THEN /\ iteration_count' = count + 1
            /\ runs' = [runs EXCEPT ![r] = [me EXCEPT !.pc = "await_model",
                                                       !.consults = @ + 1]]
       ELSE /\ iteration_count' = count
            /\ runs' = [runs EXCEPT ![r] =
                            Returned(me, FALSE, count, "max_iterations", log)]

\* execute_objective from its first line to its first suspension
StartObjective(r) ==
    /\ runs[r].pc \in {"idle", "returned"}
    /\ \A q \in Runs : runs[q].pc # "in_tool"   \* _execute_tool never suspends
    /\ LoopHead(r, NewRun, 0, <<>>)
    /\ UNCHANGED max_iterations
    /\ UNCHANGED <<configVars, callVars, shieldVars, approvalVars, ast_validator>>

\* execute_objective without the "VALIDAR FERRAMENTA" test: every decision that
\* is not done goes to _execute_tool
ModelResponds_unchecked(r, response) ==
    /\ runs[r].pc = "await_model"
    /\ \A q \in Runs : runs[q].pc # "in_tool"
    /\ IF response.done
       THEN LET log == _log_action(action_log, "ai_decision", "None", TRUE)
                me == [runs[r] EXCEPT !.done_seen = TRUE,
                                      !.own_log = _log_action(@, "ai_decision",
                                                              "None", TRUE)]
            IN  /\ action_log' = log
                /\ runs' = [runs EXCEPT ![r] =
                                Returned(me, TRUE, iteration_count, "None", log)]
                /\ UNCHANGED <<iteration_count, callVars>>
       ELSE /\ stack' = <<Frame("exec", response.tool_name, response.tool_args, 0,
                                NoError, "start")>>
            /\ call' = [tool |-> response.tool_name, args |-> response.tool_args,
                        result |-> NoResult, direct |-> FALSE]
            /\ invoked' = {}
            /\ validated' = {}
            /\ attempts' = <<>>
            /\ n_retries' = 0
            /\ learned' = <<>>
            /\ runs' = [runs EXCEPT ![r].pc = "in_tool"]
            /\ UNCHANGED <<ret, iteration_count, action_log>>
    /\ UNCHANGED max_iterations
    /\ UNCHANGED <<configVars, shieldVars, approvalVars, ast_validator>>

\* _call_model answers and execute_objective runs on to its next suspension,
\* to its return, or into _execute_tool
ModelResponds(r, response) ==
    /\ runs[r].pc = "await_model"
    /\ \A q \in Runs : runs[q].pc # "in_tool"   \* _execute_tool never suspends
    /\ IF response.done
       THEN LET log == _log_action(action_log, "ai_decision", "None", TRUE)
                me == [runs[r] EXCEPT !.done_seen = TRUE,
                                      !.own_log = _log_action(@, "ai_decision",
                                                              "None", TRUE)]
            IN  /\ action_log' = log
                /\ runs' = [runs EXCEPT ![r] =
                                Returned(me, TRUE, iteration_count, "None", log)]
                /\ UNCHANGED <<iteration_count, callVars>>
       ELSE IF response.tool_name = "None" \/ response.tool_name \notin tools
       THEN LET log == _log_action(action_log, "ai_decision", "None", FALSE)
                me == [runs[r] EXCEPT !.own_log = _log_action(@, "ai_decision",
                                                              "None", FALSE)]
            IN  /\ LoopHead(r, me, iteration_count, log)
                /\ UNCHANGED callVars
       ELSE /\ stack' = <<Frame("exec", response.tool_name, response.tool_args, 0,
                                NoError, "start")>>
            /\ call' = [tool |-> response.tool_name, args |-> response.tool_args,
                        result |-> NoResult, direct |-> FALSE]
            /\ invoked' = {}
            /\ validated' = {}
            /\ attempts' = <<>>
            /\ n_retries' = 0
            /\ learned' = <<>>
            /\ runs' = [runs EXCEPT ![r].pc = "in_tool"]
            /\ UNCHANGED <<ret, iteration_count, action_log>>
    /\ UNCHANGED max_iterations
    /\ UNCHANGED <<configVars, shieldVars, approvalVars, ast_validator>>

\* _execute_tool has come back to execute_objective: the result is logged and
\* appended to the history, or the except clause of the iteration ends the run
ToolReturns(r) ==
    /\ runs[r].pc = "in_tool"
    /\ Idle
    /\ call.result # NoResult
    /\ LET tool_result == call.result
           me == [runs[r] EXCEPT !.invocations = @ + Len(attempts)]
           raises ==
                \/ tool_result.exc # "None"
                \/ tool_result.success /\ "execution_time" \notin ToolResultFields
                \/ "security_validated" \notin ToolResultFields
                \/ "execution_time" \notin ToolResultFields
           error ==
                IF tool_result.exc # "None" THEN tool_result.exc ELSE "AttributeError"
       IN  IF raises
           THEN LET log == _log_action(action_log, "error", "None", FALSE)
                    mine == _log_action(me.own_log, "error", "None", FALSE)
                IN  /\ action_log' = log
                    /\ runs' = [runs EXCEPT ![r] =
                                    Returned([me EXCEPT !.own_log = mine], FALSE,
                                             iteration_count, error, log)]
                    /\ UNCHANGED iteration_count
           ELSE LET log == _log_action(action_log, "tool_execution", call.tool,
                                       tool_result.success)
                    mine == _log_action(me.own_log, "tool_execution", call.tool,
                                        tool_result.success)
                IN  LoopHead(r, [me EXCEPT !.own_log = mine], iteration_count, log)
    /\ UNCHANGED max_iterations
    /\ UNCHANGED <<configVars, callVars, shieldVars, approvalVars, ast_validator>>

----------------------------------------------------------------------------
(* Specifications                                                          *)

\* no SecurityShield call has been made yet
ShieldIdle ==
    /\ links = {}
    /\ shield_last = ShieldCall("none", NoCmd, NoPath, Ret(FALSE))
    /\ ast_validator = [shield |-> FALSE, violations |-> <<>>, code |-> "<none>",
                        is_safe |-> FALSE]

\* the tool calls made through _execute_tool
StartCalls ==
    {[tool |-> "execute_command", args |-> Args(c_rm_rf, AbsentPath)],
     [tool |-> "execute_command", args |-> Args(c_python, AbsentPath)],
     [tool |-> "read_file", args |-> Args(Absent, p_etc_passwd)],
     [tool |-> "unknown_tool", args |-> NoArgs]}

\* the orchestrator: configuration, tool calls and their recovery
Init ==
    /\ ShieldInit /\ ShieldIdle
    /\ ApprovalInit /\ auto_approve = FALSE
    /\ OrchInit /\ max_iterations = MaxIterationsCfg

Next ==
    \/ \E name \in RegisteredNames : RegisterTool(name)
    \/ RegisterGuardedTool
    \/ \E n \in 1..MaxRetriesCfg : SetMaxRetries(n)
    \/ ConfigureShield(n_python)
    \/ \E c \in StartCalls : ExecuteTool(c.tool, c.args)
    \/ \E c \in StartCalls, outcome \in ToolOutcomes :
            CallToolDirect(c.tool, c.args, outcome)
    \/ \E outcome \in ToolOutcomes : RunTool(outcome)
    \/ Recover
    \/ Return

Spec == Init /\ [][Next]_vars

\* the SecurityShield alone, with the file system changing under it
ShieldSpecInit ==
    /\ ShieldInit /\ ShieldIdle
    /\ ApprovalInit /\ auto_approve = FALSE
    /\ OrchInit /\ security_enabled /\ memory_on /\ max_iterations = MaxIterationsCfg

ShieldNext ==
    \/ \E name \in CommandNames : AddAllowedCommand(name)
    \/ \E path \in AddedPaths : AddAllowedPath(path)
    \/ \E command \in Commands : IsCommandAllowed(command)
    \/ \E path \in Paths : IsPathAllowed(path)
    \/ \E command \in Commands : ValidateCommand(command)
    \/ \E path \in Paths : ValidatePath(path)
    \/ GetSecurityReport
    \/ CreateSymlink
    \/ RemoveSymlink

ShieldSpec == ShieldSpecInit /\ [][ShieldNext]_vars

\* the allow-list being filled: add_allowed_command calls only, with names in
\* upper case, padded with whitespace, empty, and of whitespace only
AllowListSpec ==
    ShieldSpecInit
    /\ [][\E name \in CommandNames \cup {c_LS, c_python, <<" ">>, <<"\t"," ">>,
                                         <<" ","P","i","p","\t">>} :
            AddAllowedCommand(name)]_vars

\* the ApprovalManager alone
ApprovalSpecInit ==
    /\ ShieldInit /\ ShieldIdle
    /\ ApprovalInit
    /\ OrchInit /\ security_enabled /\ memory_on /\ max_iterations = MaxIterationsCfg

RequireApproval(action, context, has_callback, answer) ==
    /\ require_approval(action, context, has_callback, answer)
    /\ UNCHANGED <<shieldVars, orchVars, ast_validator>>

\* a call of is_critical: the answer is recorded, the manager is only read
IsCritical(command) ==
    /\ approval_last' = [op |-> "is_critical", action |-> command, exc |-> "None",
                         value |-> is_critical(command),
                         prompted |-> FALSE, callback_called |-> FALSE]
    /\ UNCHANGED <<auto_approve, approved_actions, approval_history, granted>>
    /\ UNCHANGED <<shieldVars, orchVars, ast_validator>>

ApprovalNext ==
    \/ \E action \in Actions, context \in Contexts, has_callback \in BOOLEAN,
          answer \in ChannelAnswers :
            RequireApproval(action, context, has_callback, answer)
    \/ \E command \in CriticalInputs : IsCritical(command)

ApprovalSpec == ApprovalSpecInit /\ [][ApprovalNext]_vars

\* the SecurityShield of the attack tests: a shield whose allow-lists were
\* filled before the checks are made, then checks and decorated calls only
AttackInit ==
    /\ allowed_commands \in {{}, {<<"r","m">>},
                             {<<"l","s">>, <<"r","m">>, <<"e","c","h","o">>}}
    /\ allowed_paths \in {{}, {<<"tmp">>}}
    /\ blocked_patterns = DefaultBlockedPatterns
    /\ ShieldIdle
    /\ ApprovalInit /\ auto_approve = FALSE
    /\ OrchInit /\ security_enabled /\ memory_on /\ max_iterations = MaxIterationsCfg

AttackNext ==
    \/ \E command \in AttackCommands : IsCommandAllowed(command)
    \/ \E command \in AttackCommands, result \in BOOLEAN :
            require_command_permission(command, result)
    \/ \E path \in Paths, result \in BOOLEAN : require_path_permission(path, result)

AttackSpec == AttackInit /\ [][AttackNext]_vars

\* a PythonASTValidator, with or without a SecurityShield whose allowed paths
\* were added beforehand, validating scripts
AstInit ==
    /\ allowed_commands = {}
    /\ allowed_paths \in SUBSET {<<"tmp">>, <<"etc">>}
    /\ blocked_patterns = DefaultBlockedPatterns
    /\ links \in SUBSET {LinkName}
    /\ shield_last = ShieldCall("none", NoCmd, NoPath, Ret(FALSE))
    /\ ast_validator \in {[shield |-> b, violations |-> <<>>, code |-> "<none>",
                            is_safe |-> FALSE] : b \in BOOLEAN}
    /\ ApprovalInit /\ auto_approve = FALSE
    /\ OrchInit /\ security_enabled /\ memory_on /\ max_iterations = MaxIterationsCfg

AstNext == \E script \in Scripts : validate_python_code(script)

AstSpec == AstInit /\ [][AstNext]_vars

\* no execute_objective call is in flight
NoRunInFlight == \A q \in Runs : runs[q].pc \in {"idle", "returned"}

\* register_tool called while no objective is running
RegisterBeforeRun(name) == NoRunInFlight /\ RegisterTool(name)

\* execute_objective called for a request that has not been served yet
StartOnce(r) == runs[r].pc = "idle" /\ StartObjective(r)

\* execute_objective with its tool calls, one call at a time: the orchestrator
\* is constructed, an application registers execute_command, and objectives
\* are run one after the other
ObjectiveInit ==
    /\ ShieldInit /\ ShieldIdle
    /\ ApprovalInit /\ auto_approve = FALSE
    /\ OrchInit /\ security_enabled

ObjectiveNext ==
    \/ RegisterBeforeRun("execute_command")
    \/ StartObjective(1)
    \/ \E response \in Decisions : ModelResponds(1, response)
    \/ \E outcome \in ToolOutcomes : RunTool(outcome)
    \/ Recover
    \/ Return
    \/ ToolReturns(1)

ObjectiveSpec == ObjectiveInit /\ [][ObjectiveNext]_vars /\ WF_vars(ObjectiveNext)

\* tool dispatch from both callers: execute_objective, and a caller that
\* awaits _execute_tool itself while no objective is inside a tool call;
\* _execute_tool runs to its end before the event loop serves anyone else
DispatchNext ==
    \/ RegisterBeforeRun("execute_command")
    \/ Idle /\ StartObjective(1)
    \/ \E response \in Decisions : Idle /\ ModelResponds(1, response)
    \/ \E c \in StartCalls : runs[1].pc # "in_tool" /\ ExecuteTool(c.tool, c.args)
    \/ \E outcome \in ToolOutcomes : RunTool(outcome)
    \/ Recover
    \/ Return
    \/ ToolReturns(1)

DispatchSpec == ObjectiveInit /\ [][DispatchNext]_vars

\* _execute_tool and its recovery, with a tool function that may also return
\* ToolResult(success=False, output="") and so leave error at its default None
RetryNext ==
    \/ \E name \in RegisteredNames : RegisterTool(name)
    \/ RegisterGuardedTool
    \/ \E n \in 1..MaxRetriesCfg : SetMaxRetries(n)
    \/ \E c \in StartCalls : ExecuteTool(c.tool, c.args)
    \/ \E outcome \in ToolOutcomes \cup {[k |-> "fail", error |-> NoError]} :
            RunTool(outcome)
    \/ Recover
    \/ Return

RetrySpec == Init /\ [][RetryNext]_vars

\* two execute_objective calls on one orchestrator, each suspended only at
\* "await self._call_model"; each is started once
ConcurrentNext ==
    \/ RegisterBeforeRun("execute_command")
    \/ \E r \in Runs : StartOnce(r)
    \/ \E r \in Runs, response \in Decisions : ModelResponds(r, response)
    \/ \E outcome \in ToolOutcomes : RunTool(outcome)
    \/ Recover
    \/ Return
    \/ \E r \in Runs : ToolReturns(r)

ConcurrentSpec == ObjectiveInit /\ [][ConcurrentNext]_vars
----------------------------------------------------------------------------
(* Properties                                                              *)

\* re match with letter case ignored, as re.IGNORECASE would match
RECURSIVE MatchAtCI(_, _, _, _)
MatchAtCI(p, i, s, j) ==
    IF i > Len(p) THEN TRUE
    ELSE CASE p[i].k = "lit" ->
                /\ j <= Len(s)
                /\ LowerChar(s[j]) = LowerChar(p[i].c)
                /\ MatchAtCI(p, i + 1, s, j + 1)
           [] p[i].k = "ws+" ->
                /\ j <= Len(s)
                /\ IsSpace(s[j])
                /\ (MatchAtCI(p, i + 1, s, j + 1) \/ MatchAtCI(p, i, s, j + 1))
           [] p[i].k = ".*" ->
                \/ MatchAtCI(p, i + 1, s, j)
                \/ (j <= Len(s) /\ s[j] # "\n" /\ MatchAtCI(p, i, s, j + 1))

\* some blocked pattern matches the command, letter case ignored
BlockedCI(c) ==
    \E i \in 1..Len(blocked_patterns), j \in 1..(Len(c) + 1) :
        MatchAtCI(blocked_patterns[i], 1, c, j)

\* the command has at least one token
HasToken(c) == \E i \in 1..Len(c) : ~IsSpace(c[i])

\* the first whitespace-delimited token of a command that has one
FirstToken(c) ==
    LET a == Min({i \in 1..Len(c) : ~IsSpace(c[i])})
        stops == {i \in a..Len(c) : IsSpace(c[i])}
    IN  SubSeq(c, a, IF stops = {} THEN Len(c) ELSE Min(stops) - 1)

\* q equals r or is nested under r
NestedOrEqual(q, r) == \E k \in 0..Len(q) : SubSeq(q, 1, k) = r

\* the path is written without "." or ".." and crosses no symbolic link
PlainPath(path) ==
    /\ path.abs
    /\ \A i \in 1..Len(path.parts) :
        /\ path.parts[i] \notin {".", ".."}
        /\ SubSeq(path.parts, 1, i) \notin links

\* C1: pattern-deny always wins: in every SecurityShield state, a command that
\* some blocked pattern matches (letter case ignored) is denied by
\* is_command_allowed, whatever allowed_commands holds, and a call of
\* is_command_allowed on such a command returned False
C1_PatternDenyWins ==
    /\ \A c \in Commands :
        BlockedCI(c) => is_command_allowed(c) = Ret(FALSE)
    /\ (shield_last.op = "is_command_allowed" /\ BlockedCI(shield_last.cmd))
        => (shield_last.exc = "None" /\ ~shield_last.value)

\* C1: after add_allowed_command("RM"), "RM -RF /" was denied while "rm" is allowed
C1_Witness ==
    /\ <<"r","m">> \in allowed_commands
    /\ shield_last.op = "is_command_allowed"
    /\ shield_last.cmd = c_RM_RF
    /\ ~shield_last.value
    /\ is_command_allowed(c_rm) = Ret(TRUE)

\* C3: is_path_allowed(p) is true iff the canonical form of p equals or is
\* nested under a member of allowed_paths; a plainly written path under an
\* allowed root is allowed, and with only /tmp allowed the traversal path
\* /tmp/../../etc/passwd is denied
C3_PathContainment ==
    /\ \A p \in Paths :
        is_path_allowed(p) =
            Ret(\E r \in allowed_paths : NestedOrEqual(resolve(p), r))
    /\ \A p \in Paths, r \in allowed_paths :
        (PlainPath(p) /\ NestedOrEqual(p.parts, r)) => is_path_allowed(p).value
    /\ allowed_paths = {<<"tmp">>} => ~is_path_allowed(p_traversal).value

\* C3: with only /tmp allowed, /tmp/../../etc/passwd was denied and
\* /tmp/./file.txt is allowed
C3_Witness ==
    /\ allowed_paths = {<<"tmp">>}
    /\ shield_last.op = "is_path_allowed"
    /\ shield_last.path = p_traversal
    /\ ~shield_last.value
    /\ is_path_allowed(p_tmp_dot_file).value

Done == Idle /\ call.result # NoResult /\ ~call.direct

\* C2: with security enabled, every execute_command / read_file invocation
\* made through _execute_tool was preceded by validate_command /
\* validate_path accepting its argument
C2_NoToolWithoutPolicyCheck ==
    (security_enabled /\ ~call.direct) =>
        \A k \in invoked :
            k.tool \in {"execute_command", "read_file"} => k \in validated

\* C4: one _execute_tool call makes at most max_retries re-invocations, so
\* at most max_retries + 1 tool invocations
C4_RetriesBounded ==
    /\ n_retries <= max_retries
    /\ n_invocations <= max_retries + 1

\* C6: every invocation of a tool that requires approval, or whose command
\* is_critical, happens after require_approval has returned True
C6_ApprovalBeforeCritical ==
    \A k \in invoked :
        (requires_approval(k.tool) \/ is_critical(GetCommand(k.args)))
            => granted # {}

\* C7: once an action is in approved_actions it stays there, a later
\* require_approval of it returns True without consulting the channel, and an
\* action the channel approved is in approved_actions afterwards
C7_ApprovalCached ==
    [][/\ \A a \in Actions :
            a \in approved_actions =>
                /\ a \in approved_actions'
                /\ (approval_last'.op = "require_approval" /\ approval_last'.action = a)
                    => (approval_last'.value /\ ~approval_last'.prompted)
       /\ (approval_last'.prompted /\ approval_last'.value)
            => approval_last'.action \in approved_actions']_vars

\* C7: an action approved through the channel was requested again and the
\* answer came from the cache
C7_Witness ==
    /\ ~auto_approve
    /\ approval_last.op = "require_approval"
    /\ approval_last.action = a_apt_install
    /\ a_apt_install \in approved_actions
    /\ approval_last.value
    /\ ~approval_last.prompted

\* every invocation of the tool function during this call failed
FailedOnEveryAttempt ==
    /\ attempts # <<>>
    /\ \A i \in 1..Len(attempts) : attempts[i].k \in {"fail", "raise"}

\* C8: when the tool fails on every attempt, the call ends after exactly
\* max_retries + 1 invocations with the exhausted result, which carries the
\* latest error and the retry count
C8_Exhaustion ==
    (Done /\ call.tool \in tools /\ FailedOnEveryAttempt) =>
        /\ n_invocations = max_retries + 1
        /\ call.result.exc = "None"
        /\ ~call.result.success
        /\ call.result.error =
            ExhaustedMsg(max_retries, attempts[Len(attempts)].error)

\* C9: a retry of execute_command after a "command not found" error, for a
\* command that starts with python, runs with python3 substituted
C9_CommandNotFoundRepair ==
    \A i \in 1..Len(stack) :
        (/\ stack[i].kind = "retry"
         /\ stack[i].pc # "start"
         /\ stack[i].tool = "execute_command"
         /\ Contains(Lower(stack[i].error), s_command_not_found)
         /\ StartsWith(GetCommand(stack[i].args), variants[1].old))
        => stack[i].corrected.command =
            ReplaceFirst(stack[i].args.command, variants[1].old, variants[1].new)

\* C10: a fault raised by a registered tool reaches the recovery engine: when
\* the call is over and max_retries >= 1, at least one retry was made
C10_FaultReachesRecovery ==
    (Done /\ raised_in_tool /\ max_retries >= 1) => n_retries >= 1

\* C17: validate_command raises SecurityViolationError exactly when
\* is_command_allowed returns False, and validate_path exactly when
\* is_path_allowed returns False; the message ends with the offending command
\* or path, and when the check passes nothing is raised
C17_ValidateRaisesIffDenied ==
    /\ \A c \in Commands :
        LET v == validate_command(c)
        IN  /\ (v.exc = "SecurityViolationError") = (is_command_allowed(c) = Ret(FALSE))
            /\ v.exc = "SecurityViolationError" =>
                    /\ Len(v.message) > Len(c)
                    /\ SubSeq(v.message, Len(v.message) - Len(c) + 1, Len(v.message)) = c
            /\ is_command_allowed(c) = Ret(TRUE) => v = Ret(TRUE)
    /\ \A p \in Paths :
        LET v == validate_path(p)
        IN  /\ (v.exc = "SecurityViolationError") = (is_path_allowed(p) = Ret(FALSE))
            /\ v.exc = "SecurityViolationError" =>
                    SubSeq(v.message, Len(v.message) - Len(p.parts) + 1, Len(v.message))
                        = p.parts
            /\ is_path_allowed(p) = Ret(TRUE) => v = Ret(TRUE)
    /\ shield_last.op = "validate_command" =>
        (shield_last.exc = "SecurityViolationError")
            = (is_command_allowed(shield_last.cmd) = Ret(FALSE))

\* C17: with rm and ls allowed, validate_command("rm -rf /") raised
\* SecurityViolationError while validate_command("ls") and
\* validate_path of an allowed path raise nothing
C17_Witness ==
    /\ {<<"r","m">>, <<"l","s">>} \subseteq allowed_commands
    /\ <<"tmp">> \in allowed_paths
    /\ shield_last.op = "validate_command"
    /\ shield_last.cmd = c_rm_rf
    /\ shield_last.exc = "SecurityViolationError"
    /\ validate_command(c_ls) = Ret(TRUE)
    /\ validate_path(p_tmp_file) = Ret(TRUE)
    /\ validate_path(p_etc_passwd).exc = "SecurityViolationError"

\* the operations of SecurityShield that only check or report
ShieldChecks ==
    {"is_command_allowed", "is_path_allowed", "validate_command", "validate_path",
     "get_security_report"}

\* C18: checks are pure: a step made by is_command_allowed, is_path_allowed,
\* validate_command, validate_path or get_security_report leaves
\* allowed_commands, allowed_paths and blocked_patterns as they were, whether it
\* accepted or denied; allowed_commands changes only in an add_allowed_command
\* step, allowed_paths only in an add_allowed_path step
C18_ChecksArePure ==
    [][/\ (shield_last'.op \in ShieldChecks /\ shield_last' # shield_last) =>
            UNCHANGED <<allowed_commands, allowed_paths, blocked_patterns>>
       /\ allowed_commands' # allowed_commands =>
            (shield_last'.op = "add_allowed_command" /\ shield_last'.exc = "None")
       /\ allowed_paths' # allowed_paths =>
            (shield_last'.op = "add_allowed_path" /\ shield_last'.exc = "None")
       /\ blocked_patterns' = blocked_patterns]_vars

\* C18: with ls allowed and /tmp allowed, is_command_allowed("ls") accepted
\* and the sets still hold what the add operations put there
C18_Witness ==
    /\ allowed_commands = {<<"l","s">>}
    /\ allowed_paths = {<<"tmp">>}
    /\ shield_last.op = "is_command_allowed"
    /\ shield_last.cmd = c_ls
    /\ shield_last.value = TRUE

\* C19: policy state never loses entries: no step removes a member of
\* allowed_commands or allowed_paths, and the three default blocked patterns
\* are in blocked_patterns in every state
C19_PolicyNeverShrinks ==
    /\ [](\A d \in {pat_rm_rf, pat_mkfs, pat_dd} :
            \E i \in 1..Len(blocked_patterns) : blocked_patterns[i] = d)
    /\ [][/\ allowed_commands \subseteq allowed_commands'
          /\ allowed_paths \subseteq allowed_paths']_vars

\* C19: a second command name and a second path were added and the earlier
\* ones are still there
C19_Witness ==
    /\ {<<"l","s">>, <<"r","m">>} \subseteq allowed_commands
    /\ {<<"tmp">>, <<"etc">>} \subseteq allowed_paths
    /\ shield_last.op = "add_allowed_command"
    /\ shield_last.cmd = n_RM
    /\ shield_last.exc = "None"

\* str.upper()
Upper(s) ==
    [i \in 1..Len(s) |->
        IF \E u \in DOMAIN LowerTable : LowerTable[u] = s[i]
        THEN CHOOSE u \in DOMAIN LowerTable : LowerTable[u] = s[i]
        ELSE s[i]]

\* what add_allowed_command(name) did in the step just taken: ValueError and
\* no change for the empty name, otherwise exactly the trimmed, lower-cased
\* name was inserted
AddedExactly(name) ==
    IF Len(name) = 0
    THEN /\ shield_last'.exc = "ValueError"
         /\ allowed_commands' = allowed_commands
    ELSE /\ shield_last'.exc = "None"
         /\ allowed_commands' = allowed_commands \cup {Lower(Strip(name))}

\* is_command_allowed accepts the name as given, in lower and in upper case
AcceptedInAnyCase(name) ==
    \A command \in {name, Lower(name), Upper(name)} :
        is_command_allowed(command) = Ret(TRUE)

\* C20 as stated: add_allowed_command(name) fails with ValueError for the
\* empty name and leaves allowed_commands unchanged; otherwise it inserts
\* exactly the trimmed, lower-cased name, and afterwards is_command_allowed
\* accepts that name in any letter case
C20_AddThenAccepted ==
    [][\A name \in CommandNames :
        (/\ shield_last'.op = "add_allowed_command"
         /\ shield_last'.cmd = name
         /\ shield_last' # shield_last) =>
            /\ AddedExactly(name)
            /\ Len(name) > 0 => AcceptedInAnyCase(name)']_vars

\* C20 amended: as above, but acceptance afterwards is only for a name that
\* is a single token and that no blocked pattern matches
C20_AddThenAcceptedUnlessBlocked ==
    [][\A name \in CommandNames :
        (/\ shield_last'.op = "add_allowed_command"
         /\ shield_last'.cmd = name
         /\ shield_last' # shield_last) =>
            /\ AddedExactly(name)
            /\ (Len(Split(name)) = 1 /\ ~BlockedCI(name)) =>
                    AcceptedInAnyCase(name)']_vars

\* C20: add_allowed_command("RM") was called and "rm", "RM" are accepted,
\* while the name " sudo " went in as "sudo"
C20_Witness ==
    /\ shield_last.op = "add_allowed_command"
    /\ shield_last.cmd = n_RM
    /\ shield_last.exc = "None"
    /\ {<<"r","m">>, <<"s","u","d","o">>} \subseteq allowed_commands
    /\ n_RM \notin allowed_commands
    /\ n_sudo \notin allowed_commands
    /\ is_command_allowed(c_rm) = Ret(TRUE)
    /\ is_command_allowed(n_RM) = Ret(TRUE)

\* the execute_objective call has started and has not returned
InFlight(r) == runs[r].pc \in {"await_model", "in_tool"}

\* sequence a is an initial part of sequence b
IsPrefix(a, b) == Len(a) <= Len(b) /\ SubSeq(b, 1, Len(a)) = a

\* the entries of the given type in a formatted action log
EntriesOfType(log, type) == {i \in 1..Len(log) : log[i].type = type}

\* C11: a tool result never aborts the objective run: a run that has
\* returned ended on the provider's done signal or because the iteration
\* budget was used up
C11_ToolResultNeverAborts ==
    \A r \in Runs :
        runs[r].pc = "returned" =>
            \/ runs[r].result.success /\ runs[r].done_seen
            \/ /\ runs[r].result.error = "max_iterations"
               /\ runs[r].consults = max_iterations

\* C12: when a run has returned, its action log holds exactly one entry of
\* the execution kind for every tool function invocation it caused
C12_OneEntryPerInvocation ==
    \A r \in Runs :
        runs[r].pc = "returned" =>
            Cardinality(EntriesOfType(runs[r].result.action_log, "tool_execution"))
                = runs[r].invocations

\* C14: execute_objective terminates: a run that is under way returns; it
\* calls _call_model at most max_iterations times; it returns success = True
\* exactly when the provider signalled done; and the iterations it reports
\* are between 1 and max_iterations, 0 only when max_iterations is 0
C14_ObjectiveTerminates ==
    /\ [](/\ runs[1].consults <= max_iterations
          /\ runs[1].pc = "returned" =>
                /\ runs[1].result.success = runs[1].done_seen
                /\ runs[1].result.iterations = runs[1].consults
                /\ IF max_iterations = 0
                   THEN runs[1].result.iterations = 0
                   ELSE runs[1].result.iterations \in 1..max_iterations)
    /\ (InFlight(1) ~> runs[1].pc = "returned")

\* C14: with a budget of two iterations, a run returned success at its
\* second iteration, after one iteration that named an unknown tool
C14_Witness ==
    /\ max_iterations = 2
    /\ runs[1].pc = "returned"
    /\ runs[1].result.success
    /\ runs[1].result.iterations = 2
    /\ runs[1].consults = 2
    /\ Len(runs[1].result.action_log) = 2

\* C15: the action ledger is append-only within a run: while a run is under
\* way every step leaves the entries already in action_log in place, and the
\* only step that empties the ledger is the start of a run
C15_LedgerAppendOnly ==
    [][/\ InFlight(1) => IsPrefix(action_log, action_log')
       /\ ~IsPrefix(action_log, action_log') =>
            /\ runs[1].pc \in {"idle", "returned"}
            /\ runs[1]' # runs[1]
            /\ action_log' = <<>>]_vars

\* C15: a run is in its second iteration with the entry of its first
\* iteration in the ledger, after an earlier run on the same orchestrator
\* had left entries of its own
C15_Witness ==
    /\ runs[1].pc = "await_model"
    /\ runs[1].consults = 2
    /\ Len(action_log) = 1
    /\ action_log[1].iteration = 1
    /\ call.result # NoResult

\* C16: with two execute_objective calls in flight on one orchestrator, a
\* run under way finds its own entries still in the ledger, and a run that
\* returned reports its own number of iterations and its own entries only
C16_RunsIsolated ==
    \A r \in Runs :
        /\ InFlight(r) => Len(runs[r].own_log) <= Len(action_log)
        /\ runs[r].pc = "returned" =>
            /\ runs[r].result.iterations = runs[r].consults
            /\ runs[r].result.action_log = _format_action_log(runs[r].own_log)

\* C13: a policy violation is never retried: _analyze_and_retry_tool never
\* re-attempts a call whose error is the SecurityShield's denial of the very
\* command it holds, at the first call or inside a recovery chain
C13_PolicyViolationNeverRetried ==
    \A i \in 1..Len(stack) :
        (/\ stack[i].kind = "retry"
         /\ stack[i].pc # "start"
         /\ stack[i].tool = "execute_command")
            => stack[i].error # CommandDeniedMsg(GetCommand(stack[i].args))

\* C21: add_allowed_path(path) raises ValueError and leaves allowed_paths
\* unchanged when the resolved path does not exist, otherwise it inserts
\* exactly the resolved path; every member of allowed_paths is a canonical
\* path that exists
C21_AddPathCanonical ==
    /\ [](\A p \in allowed_paths : exists(p) /\ resolve(AbsPath(p)) = p)
    /\ [][\A path \in AddedPaths :
            (/\ shield_last'.op = "add_allowed_path"
             /\ shield_last'.path = path
             /\ shield_last' # shield_last) =>
                IF exists(resolve(path))
                THEN /\ shield_last'.exc = "None"
                     /\ allowed_paths' = allowed_paths \cup {resolve(path)}
                ELSE /\ shield_last'.exc = "ValueError"
                     /\ allowed_paths' = allowed_paths]_vars

\* C21: "/tmp/link" was added while it was a symbolic link to /etc and went
\* in as "/etc", the only member of allowed_paths
C21_Witness ==
    /\ shield_last.op = "add_allowed_path"
    /\ shield_last.path = AbsPath(LinkName)
    /\ shield_last.exc = "None"
    /\ allowed_paths = {<<"etc">>}

\* the command holds, in any letter case, a token ending in "rm", then the
\* token "-rf", then a token beginning with "/"
IsRmRfVariant(command) ==
    LET t == Split(Lower(command))
    IN  \E i \in 1..(Len(t) - 2) :
            /\ Len(t[i]) >= 2
            /\ SubSeq(t[i], Len(t[i]) - 1, Len(t[i])) = <<"r","m">>
            /\ t[i + 1] = <<"-","r","f">>
            /\ StartsWith(t[i + 2], <<"/">>)

\* C22: every variant of "rm -rf /" (other letter case, more whitespace, a
\* suffix after the slash, or inside a compound command) is denied by
\* is_command_allowed, whatever the allow-list holds
C22_RmRfVariantsDenied ==
    (shield_last.op = "is_command_allowed" /\ IsRmRfVariant(shield_last.cmd))
        => shield_last.exc = "None" /\ shield_last.value = FALSE

\* C22: with "rm" allow-listed, "(rm -rf / &); sleep 1000" was denied
C22_Witness ==
    /\ <<"r","m">> \in allowed_commands
    /\ shield_last.op = "is_command_allowed"
    /\ IsRmRfVariant(shield_last.cmd)
    /\ shield_last.cmd[1] = "("
    /\ shield_last.value = FALSE

\* C23: every command containing " > /" is denied by is_command_allowed,
\* whatever the allow-list holds
C23_RedirectDenied ==
    (/\ shield_last.op = "is_command_allowed"
     /\ Contains(shield_last.cmd, <<" ",">"," ","/">>))
        => shield_last.exc = "None" /\ shield_last.value = FALSE

\* C24: a decorated function is called, with the first argument unchanged
\* and its result returned, exactly when validate_command (validate_path)
\* accepts the argument; when the check denies, SecurityViolationError is
\* raised and the function is not called
C24_DecoratorsGate ==
    /\ shield_last.op = "require_command_permission" =>
            IF validate_command(shield_last.cmd).exc = "None"
            THEN /\ shield_last.exc = "None"
                 /\ invoked = {[func |-> "func", command |-> shield_last.cmd,
                                path |-> NoPath, result |-> shield_last.value]}
            ELSE /\ invoked = {}
                 /\ is_command_allowed(shield_last.cmd) = Ret(FALSE)
                        => shield_last.exc = "SecurityViolationError"
    /\ shield_last.op = "require_path_permission" =>
            IF validate_path(shield_last.path).exc = "None"
            THEN /\ shield_last.exc = "None"
                 /\ invoked = {[func |-> "func", command |-> NoCmd,
                                path |-> shield_last.path, result |-> shield_last.value]}
            ELSE /\ invoked = {}
                 /\ shield_last.exc = "SecurityViolationError"

\* C24: the decorated function was refused "rm -rf /" although "rm" is
\* allow-listed, and was not called
C24_Witness ==
    /\ <<"r","m">> \in allowed_commands
    /\ shield_last.op = "require_command_permission"
    /\ shield_last.cmd = c_rm_rf
    /\ shield_last.exc = "SecurityViolationError"
    /\ invoked = {}

\* the script that was given to the latest validate_python_code call
Validated(script) == script \in Scripts /\ script.code = ast_validator.code

\* C25: the analyzer fails closed: for a source that does not parse,
\* validate_python_code returns is_safe = False with exactly one violation,
\* a syntax error; and is_safe is True exactly when the violation list it
\* returns is empty
C25_FailsClosed ==
    \A script \in Scripts :
        Validated(script) =>
            /\ ast_validator.is_safe = (ast_validator.violations = <<>>)
            /\ ~script.parses =>
                    /\ ~ast_validator.is_safe
                    /\ Len(ast_validator.violations) = 1
                    /\ ast_validator.violations[1][1] = "Syntax error"

\* C25: "def f(:" was validated: is_safe is False and the list holds one entry
C25_Witness ==
    /\ ast_validator.code = "def f(:"
    /\ ~ast_validator.is_safe
    /\ Len(ast_validator.violations) = 1

\* the script imports subprocess or os and calls subprocess.run,
\* subprocess.Popen or os.system, or imports such a function by name
SpawnsProcess(script) ==
    \/ /\ \E i \in 1..Len(script.nodes) :
            /\ script.nodes[i].type = "Import"
            /\ \E k \in 1..Len(script.nodes[i].names) :
                    script.nodes[i].names[k] \in {"subprocess", "os"}
       /\ \E i \in 1..Len(script.nodes) :
            /\ script.nodes[i].type = "Call"
            /\ script.nodes[i].func = "Attribute"
            /\ script.nodes[i].name \in {"run", "Popen", "system"}
    \/ \E i \in 1..Len(script.nodes) :
            /\ script.nodes[i].type = "ImportFrom"
            /\ script.nodes[i].module \in {"subprocess", "os"}
            /\ \E k \in 1..Len(script.nodes[i].names) :
                    script.nodes[i].names[k] \in {"run", "Popen", "system"}

\* C26: a script that spawns a process through subprocess or os is reported
\* unsafe, with at least one violation
C26_ProcessSpawnFlagged ==
    \A script \in Scripts :
        (Validated(script) /\ SpawnsProcess(script)) =>
            /\ ~ast_validator.is_safe
            /\ Len(ast_validator.violations) >= 1

\* C27: with a shield attached, a script whose only call is open() on a
\* literal path is reported safe exactly when is_path_allowed accepts the
\* path
C27_OpenFlaggedIffPathDenied ==
    \A script \in Scripts :
        (/\ Validated(script)
         /\ ast_validator.shield
         /\ Len(script.nodes) = 1
         /\ script.nodes[1].type = "Call"
         /\ script.nodes[1].func = "Name"
         /\ script.nodes[1].name = "open"
         /\ script.nodes[1].arg = "str") =>
            (ast_validator.is_safe <=> is_path_allowed(script.nodes[1].path) = Ret(TRUE))

\* some critical keyword occurs in the lower-cased string at some position
HasCriticalTerm(action) ==
    \E keyword \in CRITICAL_KEYWORDS :
        \E i \in 1..Len(action) :
            /\ i + Len(keyword) - 1 <= Len(action)
            /\ \A j \in 1..Len(keyword) : LowerChar(action[i + j - 1]) = keyword[j]

\* C28: is_critical answers True exactly for the strings whose lower-cased
\* form contains a term of CRITICAL_KEYWORDS, False for every string that
\* contains none, and a call of it leaves auto_approve, approved_actions and
\* approval_history as they were
C28_IsCriticalIffKeyword ==
    /\ [](approval_last.op = "is_critical"
            => approval_last.value = HasCriticalTerm(approval_last.action))
    /\ [][approval_last'.op = "is_critical"
            => UNCHANGED <<auto_approve, approved_actions, approval_history>>]_vars

\* C28: "SUDO ls" was found critical by a manager that holds an approval
C28_Witness ==
    /\ approval_last.op = "is_critical"
    /\ approval_last.action = <<"S","U","D","O"," ","l","s">>
    /\ approval_last.value
    /\ approved_actions # {}
    /\ approval_history # <<>>

\* C29: with auto_approve set, every require_approval call returns True
\* without consulting the approval channel and without calling the callback,
\* and approved_actions and approval_history stay as they were
C29_AutoApprove ==
    [][(auto_approve /\ approval_last'.op = "require_approval")
        => /\ approval_last'.exc = "None"
           /\ approval_last'.value
           /\ ~approval_last'.prompted
           /\ ~approval_last'.callback_called
           /\ UNCHANGED <<auto_approve, approved_actions, approval_history>>]_vars

\* C29: "rm -rf /" was auto-approved and nothing was recorded
C29_Witness ==
    /\ auto_approve
    /\ approval_last.op = "require_approval"
    /\ approval_last.action = c_rm_rf
    /\ approval_last.value
    /\ ~approval_last.prompted
    /\ approved_actions = {}
    /\ approval_history = <<>>

\* the decisions of the model that name no registered tool
Unrecognized(response) ==
    ~response.done /\ (response.tool_name = "None" \/ response.tool_name \notin tools)

\* C30: an unregistered tool is a failed result, not a crash.  A finished
\* _execute_tool call on a name that is not in the registry has returned a
\* failed ToolResult whose error names the tool, no tool function was invoked
\* and the recovery engine never ran for it; and when the model decides on such
\* a name, execute_objective appends a failed ai_decision entry, starts no tool
\* call, and goes on to the next iteration (or, its budget used up, to the
\* max-iterations result)
C30_UnregisteredToolFails ==
    /\ []((Idle /\ call.result # NoResult /\ call.tool \notin tools)
            => /\ call.result.exc = "None"
               /\ ~call.result.success
               /\ call.result.output = ""
               /\ Contains(call.result.error, NameChars(call.tool))
               /\ invoked = {}
               /\ attempts = <<>>
               /\ n_retries = 0)
    /\ [](\A i \in 1..Len(stack) : stack[i].tool \notin tools => stack[i].kind = "exec")
    /\ [][\A response \in Decisions :
            (Unrecognized(response) /\ ModelResponds(1, response))
                => /\ action_log' = Append(action_log,
                                           ActionLog(iteration_count, "ai_decision",
                                                     "None", FALSE))
                   /\ UNCHANGED callVars
                   /\ IF iteration_count < max_iterations
                      THEN /\ iteration_count' = iteration_count + 1
                           /\ runs'[1].pc = "await_model"
                      ELSE /\ runs'[1].pc = "returned"
                           /\ runs'[1].result.error = "max_iterations"]_vars

\* C30: _execute_tool was called on unknown_tool and has returned, and the
\* objective running beside it has recorded a failed decision and gone on to
\* its second iteration
C30_Witness ==
    /\ Idle
    /\ call.tool = "unknown_tool"
    /\ call.result # NoResult
    /\ ~call.result.success
    /\ invoked = {}
    /\ runs[1].pc = "await_model"
    /\ iteration_count = 2
    /\ \E i \in 1..Len(action_log) :
            action_log[i].action_type = "ai_decision" /\ ~action_log[i].success

\* C31: every result the wrapper returns carries a recorded duration, and a
\* fault raised by the tool function comes back as a failed result whose error
\* is the fault message
C31_DurationRecorded ==
    (call.direct /\ call.result # NoResult)
        => /\ call.result.exc = "None"
           /\ call.result.timed
           /\ \A i \in 1..Len(attempts) :
                attempts[i].k = "raise"
                    => (~call.result.success /\ call.result.error = attempts[i].error)

\* a retry frame that has just received the result of its re-invocation
RetryOutcomeArrived ==
    /\ stack # <<>>
    /\ ret # NoResult
    /\ Top.kind = "retry" /\ Top.pc = "await_exec"

\* the learn_from_error call that preceded retry frame f, if there is one
ReportedBefore(f, carried(_, _)) ==
    \E i \in 1..Len(learned) :
        /\ learned[i].call = "learn_from_error"
        /\ learned[i].attempt = f.attempt - 1
        /\ carried(learned[i], f.error)

\* the error attempt n + 1 starts with is the error retry n reported
CarriesNewError(event, error) == error = event.error

\* the same, except that a failure without a message leaves the earlier error
CarriesNewErrorIfAny(event, error) ==
    error = (IF event.error = NoError THEN event.original_error ELSE event.error)

\* C32 as stated: with a learning collaborator, every attempt after the first
\* was preceded by learn_from_error for the failed retry before it, and
\* carries the error of that failure
C32_NextAttemptCarriesNewError ==
    memory_on =>
        \A i \in 1..Len(stack) :
            (stack[i].kind = "retry" /\ stack[i].attempt > 1)
                => ReportedBefore(stack[i], CarriesNewError)

\* C32, amended: with a learning collaborator, a failed retry n is reported
\* with learn_from_error before attempt n + 1 begins, and attempt n + 1 carries
\* the error of that failure when it has a message and the earlier error when
\* it has none; a successful retry is reported with learn_from_success before
\* its result is returned, and no attempt is made after it
C32_LearningInOrder ==
    /\ [](memory_on =>
            \A i \in 1..Len(stack) :
                (stack[i].kind = "retry" /\ stack[i].attempt > 1)
                    => ReportedBefore(stack[i], CarriesNewErrorIfAny))
    /\ [][(memory_on /\ RetryOutcomeArrived)
            => /\ Len(learned') = Len(learned) + 1
               /\ learned'[Len(learned')].attempt = Top.attempt
               /\ learned'[Len(learned')].call =
                    (IF ret.success THEN "learn_from_success" ELSE "learn_from_error")
               /\ ~ret.success => learned'[Len(learned')].error = ret.error
               /\ ret.success => (stack' = Pop /\ ret' = ret)
               /\ UNCHANGED <<attempts, n_retries>>]_vars
    /\ [][(~Idle /\ learned # <<>>
            /\ learned[Len(learned)].call = "learn_from_success"
            /\ learned[Len(learned)].attempt >= 1)
            => UNCHANGED <<attempts, n_retries>>]_vars

\* C32: the first retry failed without a message and was reported, the second
\* retry succeeded and was reported, and the call has returned
C32_Witness ==
    /\ memory_on
    /\ Idle
    /\ call.result.success
    /\ \E i \in 1..Len(learned) :
            /\ learned[i].call = "learn_from_error"
            /\ learned[i].attempt = 1
            /\ learned[i].error = NoError
    /\ learned[Len(learned)].call = "learn_from_success"
    /\ learned[Len(learned)].attempt = 2

\* the permission-denied rule is the only one that rewrites arguments, and it
\* does so for execute_command only: every other error (one that matches no
\* rule, or a missing-file error) and every other tool leave them as they are
NoRewriteRule(tool_name, error) ==
    \/ tool_name # "execute_command"
    \/ ~Contains(Lower(error),
                 <<"p","e","r","m","i","s","s","i","o","n"," ","d","e","n","i","e","d">>)

\* C33: when no fix rule rewrites (no rule matches the error, the error is
\* a missing-file error, or the tool is not execute_command), the corrected
\* arguments equal the original ones, the re-invocation is started with them,
\* and the tool function is called with the arguments of its frame
C33_NoRuleKeepsArguments ==
    /\ [](\A i \in 1..Len(stack) :
            (/\ stack[i].kind = "retry"
             /\ stack[i].pc \in {"await_exec", "tail"}
             /\ NoRewriteRule(stack[i].tool, stack[i].error))
                => /\ stack[i].corrected = stack[i].args
                   /\ i < Len(stack) => stack[i + 1].args = stack[i].args)
    /\ [][(stack # <<>> /\ Len(attempts') = Len(attempts) + 1)
            => [tool |-> Top.tool, args |-> Top.args] \in invoked']_vars

\* C33: read_file failed with "Permission denied" in a retry, and the next
\* retry has called it again with the path it was first given
C33_Witness ==
    /\ Len(attempts) >= 3
    /\ invoked = {[tool |-> "read_file", args |-> Args(Absent, p_etc_passwd)]}
    /\ \E i \in 1..Len(stack) :
            /\ stack[i].kind = "retry"
            /\ stack[i].pc = "await_exec"
            /\ stack[i].attempt = 2
            /\ stack[i].error = <<"P","e","r","m","i","s","s","i","o","n"," ","d","e","n","i","e","d">>

\* C34: with security enabled, a command that the recovery engine rewrote
\* reaches the tool function only if SecurityShield.validate_command accepts
\* it
C34_CorrectedRevalidated ==
    security_enabled =>
        \A k \in invoked :
            (k.tool = "execute_command" /\ k.args # call.args)
                => \A command \in {GetCommand(k.args)} :
                        validate_command(command).exc = "None"

\* C35: with auto_approve off, approved_actions is exactly the set of actions
\* the channel accepted, approval_history holds exactly one entry for each of
\* them and only entries with approved = True, a denied action is not put in
\* the cache, and a request for an action that is not cached consults the
\* channel
C35_Bookkeeping ==
    /\ [](~auto_approve
            => /\ approved_actions = granted
               /\ Len(approval_history) = Cardinality(approved_actions)
               /\ \A a \in approved_actions :
                    Cardinality({i \in 1..Len(approval_history) :
                                    approval_history[i].action = a}) = 1
               /\ \A i \in 1..Len(approval_history) : approval_history[i].approved)
    /\ [][(~auto_approve /\ approval_last'.op = "require_approval")
            => /\ approval_last'.action \notin approved_actions
                    => approval_last'.prompted
               /\ (approval_last'.prompted /\ ~approval_last'.value)
                    => /\ approval_last'.action \notin approved_actions'
                       /\ UNCHANGED <<approved_actions, approval_history>>]_vars

\* C35: two actions were approved through the channel and a third one has
\* just been denied
C35_Witness ==
    /\ ~auto_approve
    /\ approved_actions = {a_apt_install, c_rm_rf}
    /\ Len(approval_history) = 2
    /\ approval_last.op = "require_approval"
    /\ approval_last.action \notin approved_actions
    /\ approval_last.exc = "None"
    /\ approval_last.prompted
    /\ ~approval_last.value

\* C36: is_command_allowed is total: it returns a boolean for every string
\* and never raises, and it returns False for the empty string and for a
\* string of whitespace only
C36_IsCommandAllowedTotal ==
    shield_last.op = "is_command_allowed"
        => /\ shield_last.exc = "None"
           /\ shield_last.value \in BOOLEAN
           /\ (\A i \in 1..Len(shield_last.cmd) : IsSpace(shield_last.cmd[i]))
                => ~shield_last.value

\* C37: every member of allowed_commands is a non-empty string without
\* leading or trailing whitespace and without upper-case letters
C37_AllowSetWellFormed ==
    \A name \in allowed_commands :
        /\ Len(name) > 0
        /\ ~IsSpace(name[1])
        /\ ~IsSpace(name[Len(name)])
        /\ name = Lower(name)

\* the command of the call being served, and the same with one "sudo " in front
OriginalCommand == GetCommand(call.args)
Escalated == s_sudo \o <<" ">> \o OriginalCommand

\* C38: the permission-denied fix is idempotent.  Whatever the number of
\* consecutive permission-denied retries, the command of every frame and of
\* every invocation of execute_command is the caller's command or that command
\* with exactly one "sudo " in front, a command that starts with "sudo" is
\* left as it is, and the argument mapping of the caller and of every frame
\* stays what it was while the fix builds the corrected one
C38_SudoFixIdempotent ==
    /\ []((~Idle /\ call.tool = "execute_command")
            => /\ \A i \in 1..Len(stack) :
                    /\ GetCommand(stack[i].args) \in {OriginalCommand, Escalated}
                    /\ GetCommand(stack[i].corrected) \in {OriginalCommand, Escalated}
                    /\ StartsWith(GetCommand(stack[i].args), s_sudo)
                        => stack[i].corrected = stack[i].args
               /\ \A k \in invoked :
                    GetCommand(k.args) \in {OriginalCommand, Escalated})
    /\ [][stack # <<>>
            => /\ call'.args = call.args
               /\ \A i \in 1..Len(stack) :
                    i <= Len(stack') => stack'[i].args = stack[i].args]_vars

\* C38: after two consecutive permission-denied failures the third retry has
\* called execute_command with a single "sudo " in front of "rm -rf /"
C38_Witness ==
    /\ call.args = Args(c_rm_rf, AbsentPath)
    /\ Len(attempts) = 4
    /\ attempts[2].k = "fail" /\ attempts[3].k = "fail"
    /\ Contains(Lower(attempts[2].error), <<"p","e","r","m","i","s","s","i","o","n">>)
    /\ Contains(Lower(attempts[3].error), <<"p","e","r","m","i","s","s","i","o","n">>)
    /\ \E i \in 1..Len(stack) :
            /\ stack[i].kind = "retry"
            /\ stack[i].attempt = 3
            /\ stack[i].args.command = s_sudo \o <<" ">> \o c_rm_rf
            /\ stack[i].corrected = stack[i].args
    /\ [tool |-> "execute_command",
        args |-> Args(s_sudo \o <<" ">> \o c_rm_rf, AbsentPath)] \in invoked

====
